---- MODULE Spec2Model ----
(***************************************************************************)
(* NFSe Arapiraca: the orchestrated submission-and-polling workflow        *)
(* (orchestrator.py) over its collaborators (data_source.py,               *)
(* xml_builder.py, signer.py, soap_client.py).                             *)
(*                                                                         *)
(* Python dicts are functions whose DOMAIN is the set of keys present, so  *)
(* dict.get(key, default) is Get below.  None is the string "None" where   *)
(* the other values are strings, 0 where they are status codes and -1      *)
(* where they are clock readings.                                          *)
(***************************************************************************)
EXTENDS Integers, Sequences, FiniteSets, TLC

\* ---------------------------------------------------------------- bounds
MaxTentativas == 3
MaxFaturas == 2
MaxNfse == 2
MaxSituacao == 5

\* ------------------------------------------------------- program constants
IntervaloSegundos == 15
SemStatus == 0
SemFim == -1

None == "None"

VARIABLES
    config,            \* config.py switches read by the collaborators
    max_tentativas,    \* _fazer_polling_status parameter
    pc,                \* position of process_pending_invoices
    resultado_final,   \* the Workflow Result dict
    invoices_data,     \* local of step 1
    numero_lote,       \* local of step 2
    xml_lote,          \* local of step 2
    xml_assinado,      \* local of step 3
    xmlsec,            \* the signing library: initialised or not
    key,               \* local of sign_lote_rps_xml: the private-key handle
    assinatura,        \* the running call of sign_lote_rps_xml
    resultado_envio,   \* local of step 4
    protocolo,         \* local of step 4
    tentativa,         \* loop variable of _fazer_polling_status
    polling,           \* how _fazer_polling_status ended, and with what
    resultado_final_ws,\* local of step 6
    agora,             \* wall clock in seconds since start_time
    chamadas,          \* collaborator calls issued so far, in order
    observados,        \* what each status query of the poller produced
    remoto,            \* exchanges with the remote web service, in order
    lotes,             \* batch numbers handed out by gerar_numero_lote
    outra,             \* a second invocation in the same process: where it
                       \* is in sign_lote_rps_xml
    invoices_list      \* local of process_single_invoice

vars == <<config, max_tentativas, pc, resultado_final, invoices_data,
          numero_lote, xml_lote, xml_assinado, xmlsec, key, assinatura,
          resultado_envio, protocolo, tentativa, polling,
          resultado_final_ws, agora, chamadas, observados, remoto, lotes,
          outra, invoices_list>>

\* ---------------------------------------------------------------- helpers
Get(d, k, default) == IF k \in DOMAIN d THEN d[k] ELSE default

\* Falsy taking every protocol value for present
FalsyNunca(s) == FALSE

\* Python truthiness of a protocol value: None and "" are falsy
Falsy(s) == s = None \/ s = ""

ETAPAS == <<"obter_faturas", "construir_xml", "assinar_xml", "enviar_lote",
            "polling_status", "obter_resultados">>

\* an exception that escapes a collaborator call
Excecao == [excecao |-> "Exception"]
Levantou(r) == "excecao" \in DOMAIN r

\* a Python None where the other values are dicts or lists
Indefinido == [none |-> TRUE]
EhNone(r) == "none" \in DOMAIN r

\* a local variable that has not been assigned yet
NaoAtribuida == [unbound |-> TRUE]

\* ComErro with the step's handler letting the exception go on to the outer
\* "except Exception", which appends its own error
ComErroDuplo(rf, prefixo, detalhe) ==
    [rf EXCEPT !.erros = @ \o << <<prefixo, detalhe>>,
                                 <<"Erro inesperado durante orquestracao",
                                   detalhe>> >>]

\* resultado_final with an error appended
ComErro(rf, prefixo, detalhe) ==
    [rf EXCEPT !.erros = Append(@, <<prefixo, detalhe>>)]

\* ComEtapa putting the step name at the head of the list
ComEtapaNaFrente(rf, nome) ==
    [rf EXCEPT !.etapas_concluidas = <<nome>> \o @]

ComEtapa(rf, nome) ==
    [rf EXCEPT !.etapas_concluidas = Append(@, nome)]

\* ------------------------------------------------------------ data_source
Faturas == { [id_rps |-> "rps_1", completo |-> TRUE],
             [id_rps |-> "rps_2", completo |-> TRUE],
             [id_rps |-> "", completo |-> TRUE],
             [id_rps |-> "rps_3", completo |-> FALSE] }

SeqsAte(S, n) == UNION { [1..k -> S] : k \in 0..n }

\* what get_invoices_to_process can hand to step 1: a list of records, an
\* empty list, None, or an exception
get_invoices_to_process ==
    { [lista |-> l] : l \in SeqsAte(Faturas, MaxFaturas) }
      \cup { Indefinido } \cup { Excecao }

\* now.strftime("%Y%m%d%H%M%S") of the clock reading t, in seconds, read as
\* a number: the minutes followed by the two digits of the seconds
strftime(t) == ((t \div 60) * 100) + (t % 60)

gerar_numero_lote(t) == strftime(t)

\* ------------------------------------------------------------ xml_builder
\* The tree rooted at EnviarLoteRpsEnvio.  LoteRps is the root's child and
\* carries id; ListaRps[i] is the id attribute of the InfRps of the i-th Rps;
\* Signatures are the ds:Signature elements in the order they were appended,
\* each with its parent; Comentarios are the comments at the head of the root.
\* _build_rps reads invoice["id_rps"], invoice["data_emissao"], ...: a record
\* lacking a field raises KeyError
\* create_lote_xml writing a QuantidadeRps of 1 whatever the batch holds
create_lote_xml_um_rps(cfg, invoices, numero) ==
    IF \E i \in 1..Len(invoices) : ~invoices[i].completo
    THEN Excecao
    ELSE [ id |-> "lote_" \o ToString(numero),
           NumeroLote |-> numero,
           Cnpj |-> cfg.PRESTADOR_CNPJ,
           InscricaoMunicipal |-> cfg.PRESTADOR_IM,
           QuantidadeRps |-> 1,
           ListaRps |-> [i \in 1..Len(invoices) |-> invoices[i].id_rps],
           Signatures |-> << >>,
           Comentarios |-> << >> ]

\* cfg: PRESTADOR_CNPJ and PRESTADOR_IM, imported from config, become the
\* text of Cnpj and InscricaoMunicipal as they are
create_lote_xml(cfg, invoices, numero) ==
    IF \E i \in 1..Len(invoices) : ~invoices[i].completo
    THEN Excecao
    ELSE [ id |-> "lote_" \o ToString(numero),
           NumeroLote |-> numero,
           Cnpj |-> cfg.PRESTADOR_CNPJ,
           InscricaoMunicipal |-> cfg.PRESTADOR_IM,
           QuantidadeRps |-> Len(invoices),
           ListaRps |-> [i \in 1..Len(invoices) |-> invoices[i].id_rps],
           Signatures |-> << >>,
           Comentarios |-> << >> ]

\* ----------------------------------------------------------------- signer
\* the environment of one signing call: whether the certificate file exists
\* and whether the key loads from it
AmbientesAssinatura == [ cert_existe : BOOLEAN, chave_ok : BOOLEAN ]

_load_private_key_from_pfx(amb) ==
    IF ~amb.cert_existe THEN Excecao
    ELSE IF ~amb.chave_ok THEN Excecao
    ELSE [chave |-> "key"]

\* etree.tostring(xml_tree_root, xml_declaration=True, encoding='utf-8'): the
\* bytes hold the tree as it is at that moment
tostring(xml) == [xml_declaration |-> TRUE, encoding |-> "utf-8", raiz |-> xml]

\* the parents a Signature element is appended to
RAIZ == [tag |-> "EnviarLoteRpsEnvio", i |-> 0]

\* PaiDaAssinaturaInterna with the template put inside the signed element
PaiInfRps(i) == [tag |-> "InfRps", i |-> i]

\* "rps_element.append(signature_template)": the Rps holding the InfRps
PaiDaAssinaturaInterna(i) == [tag |-> "Rps", i |-> i]

\* a template whose DigestValue and SignatureValue xmlsec has yet to fill
_create_signature_template(reference_uri) ==
    [ tag |-> "Signature", URI |-> reference_uri, pai |-> Indefinido,
      DigestValue |-> Indefinido, SignatureValue |-> Indefinido ]

\* parent.append(signature_template)
append(xml, pai, signature_template) ==
    [xml EXCEPT !.Signatures = Append(@, [signature_template EXCEPT !.pai = pai])]

\* what a same-document reference selects, as the digest sees it: for the
\* LoteRps id the whole LoteRps subtree, with every Signature then standing
\* below it; otherwise the InfRps carrying the id
Referenciado(xml, uri) ==
    IF uri = "#" \o xml.id
    THEN [ tag |-> "LoteRps", ListaRps |-> xml.ListaRps,
           Signatures |-> SelectSeq(xml.Signatures,
                                    LAMBDA no : no.pai.tag # RAIZ.tag) ]
    ELSE [ tag |-> "InfRps", id |-> uri ]

\* _apply_signature with an xmlsec failure swallowed: the template stays empty
_apply_signature_silencioso(xml, k, chave, assinou) ==
    IF ~assinou THEN xml
    ELSE [xml EXCEPT !.Signatures[k].DigestValue =
                         Referenciado(xml, xml.Signatures[k].URI),
                     !.Signatures[k].SignatureValue = chave]

\* ctx.key = key; ctx.sign(signature_template), on the k-th Signature of the
\* tree: xmlsec either fills the template in place or raises xmlsec.Error
_apply_signature(xml, k, chave, assinou) ==
    IF ~assinou THEN Excecao
    ELSE [xml EXCEPT !.Signatures[k].DigestValue =
                         Referenciado(xml, xml.Signatures[k].URI),
                     !.Signatures[k].SignatureValue = chave]

\* Bypass taking the simulated web service for a signing bypass as well
BypassTambemMock(cfg) ==
    IF cfg.SKIP_SIGNATURE \/ cfg.MOCK_WEBSERVICE THEN "sem_assinatura"
    ELSE IF cfg.TEST_MODE THEN "simulada"
    ELSE "assinar"

\* the two configuration switches read at the top of sign_lote_rps_xml
Bypass(cfg) ==
    IF cfg.SKIP_SIGNATURE THEN "sem_assinatura"
    ELSE IF cfg.TEST_MODE THEN "simulada"
    ELSE "assinar"

\* xmlsec.init()
xmlsec_init(lib) == [lib EXCEPT !.iniciada = TRUE]

\* xmlsec_shutdown left out
xmlsec_shutdown_ausente(lib) == lib

\* xmlsec.shutdown()
xmlsec_shutdown(lib) == [lib EXCEPT !.iniciada = FALSE]

\* ProximaFase with the LoteRps signed before the InfRps elements
ProximaFaseExternaPrimeiro(fase) ==
    CASE fase = "sign_lote_rps_xml" -> "_sign_external_lote_element"
      [] fase = "_sign_external_lote_element" -> "_sign_internal_rps_elements"
      [] fase = "_sign_internal_rps_elements" -> "tostring"

\* the body of the try of sign_lote_rps_xml, in order: key, Fase 1, Fase 2,
\* serialization
ProximaFase(fase) ==
    CASE fase = "sign_lote_rps_xml" -> "_sign_internal_rps_elements"
      [] fase = "_sign_internal_rps_elements" -> "_sign_external_lote_element"
      [] fase = "_sign_external_lote_element" -> "tostring"

\* ------------------------------------------------------------ soap_client
\* what the remote RecepcionarLoteRps call can produce
RespostasEnvio ==
    { [tipo |-> "protocolo", texto |-> "PROT_1"],
      [tipo |-> "protocolo", texto |-> None],
      [tipo |-> "mensagem_retorno", codigo |-> "E10", mensagem |-> "RPS ja informado"],
      [tipo |-> "invalida"],
      [tipo |-> "malformada"],
      [tipo |-> "fault"],
      [tipo |-> "transport_error"],
      [tipo |-> "erro"] }

\* what the remote ConsultarSituacaoLoteRps call can produce
RespostasStatus ==
    { [tipo |-> "situacao", valor |-> v] : v \in 1..MaxSituacao }
      \cup { [tipo |-> "sem_situacao"], [tipo |-> "malformada"], [tipo |-> "erro"] }

\* what the remote ConsultarLoteRps call can produce
RespostasNfse ==
    { [tipo |-> "lista", n |-> n] : n \in 0..MaxNfse }
      \cup { [tipo |-> "malformada"], [tipo |-> "erro"] }

NumeroNfse(i) == IF i = 1 THEN "000000001" ELSE "000000002"

_get_status_description(status) ==
    CASE status = 1 -> "Nao Recebido"
      [] status = 2 -> "Processando"
      [] status = 3 -> "Erro no Processamento"
      [] status = 4 -> "Processado com Sucesso"
      [] OTHER -> "Status desconhecido"

_processar_resposta_envio(resp) ==
    CASE resp.tipo = "protocolo" ->
            [sucesso |-> TRUE, protocolo |-> resp.texto, resposta_xml |-> resp]
      [] resp.tipo = "mensagem_retorno" ->
            [sucesso |-> FALSE, erro |-> resp.mensagem,
             codigo_erro |-> resp.codigo, protocolo |-> None,
             resposta_xml |-> resp]
      [] resp.tipo = "invalida" ->
            [sucesso |-> FALSE,
             erro |-> "Resposta invalida - protocolo nao encontrado",
             codigo_erro |-> "INVALID_RESPONSE", protocolo |-> None,
             resposta_xml |-> resp]
      [] OTHER ->
            [sucesso |-> FALSE, erro |-> "Erro ao processar resposta",
             codigo_erro |-> "PROCESSING_ERROR", protocolo |-> None]

\* send_lote_rps without its except clauses: a failed call raises
send_lote_rps_sem_except(cfg, signed_xml_bytes, resp, t) ==
    IF ~cfg.MOCK_WEBSERVICE /\ resp.tipo \in {"fault", "transport_error", "erro"}
    THEN Excecao
    ELSE _processar_resposta_envio(resp)

\* t: the clock reading when the simulated protocol is made up
send_lote_rps(cfg, signed_xml_bytes, resp, t) ==
    IF cfg.MOCK_WEBSERVICE
    THEN [sucesso |-> TRUE, protocolo |-> "TESTE_" \o ToString(strftime(t)),
          mensagem |-> "Lote recebido com sucesso (simulado)",
          resposta_xml |-> [tipo |-> "protocolo",
                            texto |-> "TESTE_20250930112656"]]
    ELSE CASE resp.tipo = "fault" ->
                [sucesso |-> FALSE, erro |-> "Erro SOAP",
                 codigo_erro |-> "SOAP_FAULT", protocolo |-> None]
           [] resp.tipo = "transport_error" ->
                [sucesso |-> FALSE, erro |-> "Erro de transporte",
                 codigo_erro |-> "TRANSPORT_ERROR", protocolo |-> None]
           [] resp.tipo = "erro" ->
                [sucesso |-> FALSE, erro |-> "Erro inesperado",
                 codigo_erro |-> "UNEXPECTED_ERROR", protocolo |-> None]
           [] OTHER -> _processar_resposta_envio(resp)

_processar_resposta_status(resp) ==
    CASE resp.tipo = "situacao" ->
            [sucesso |-> TRUE, status |-> resp.valor,
             status_descricao |-> _get_status_description(resp.valor),
             resposta_xml |-> resp]
      [] resp.tipo = "sem_situacao" ->
            [sucesso |-> FALSE, erro |-> "Status nao encontrado na resposta",
             codigo_erro |-> "STATUS_NOT_FOUND", status |-> SemStatus]
      [] OTHER ->
            [sucesso |-> FALSE, erro |-> "Erro ao processar resposta",
             codigo_erro |-> "PROCESSING_ERROR", status |-> SemStatus]

\* check_lote_status reporting "processado com sucesso" whatever came back
check_lote_status_sempre_4(cfg, prot, resp) ==
    [sucesso |-> TRUE, status |-> 4,
     status_descricao |-> "Lote processado com sucesso",
     protocolo |-> prot,
     resposta_xml |-> [tipo |-> "situacao", valor |-> 4]]

check_lote_status(cfg, prot, resp) ==
    IF cfg.MOCK_WEBSERVICE
    THEN [sucesso |-> TRUE, status |-> 4,
          status_descricao |-> "Lote processado com sucesso",
          protocolo |-> prot,
          resposta_xml |-> [tipo |-> "situacao", valor |-> 4]]
    ELSE IF resp.tipo = "erro"
    THEN [sucesso |-> FALSE, erro |-> "Erro inesperado",
          codigo_erro |-> "UNEXPECTED_ERROR"]
    ELSE _processar_resposta_status(resp)

_processar_resposta_nfse(resp) ==
    IF resp.tipo = "lista"
    THEN [sucesso |-> TRUE,
          nfse_list |-> [i \in 1..resp.n |-> [numero |-> NumeroNfse(i)]],
          total_nfse |-> resp.n, resposta_xml |-> resp]
    ELSE [sucesso |-> FALSE, erro |-> "Erro ao processar resposta",
          codigo_erro |-> "PROCESSING_ERROR", nfse_list |-> << >>]

get_nfse_by_lote(cfg, prot, resp) ==
    IF cfg.MOCK_WEBSERVICE
    THEN [sucesso |-> TRUE,
          nfse_list |-> << [numero |-> "000000001",
                            codigo_verificacao |-> "ABC123"] >>,
          protocolo |-> prot]
    ELSE IF resp.tipo = "erro"
    THEN [sucesso |-> FALSE, erro |-> "Erro inesperado",
          codigo_erro |-> "UNEXPECTED_ERROR"]
    ELSE _processar_resposta_nfse(resp)

Chamada(op, prot) == [op |-> op, protocolo |-> prot]

\* one exchange with the remote service: the operation invoked, the protocol
\* its request carried (None for the submission) and what came back
Troca(op, prot, resp) == [op |-> op, protocolo |-> prot, resposta |-> resp]

\* the exchange a client function makes, none when the service is simulated
Trocas(cfg, op, prot, resp) ==
    IF cfg.MOCK_WEBSERVICE THEN << >> ELSE << Troca(op, prot, resp) >>

\* what the answer to a status query leaves on record: the Situacao it
\* carried; an answer without one, an unparseable one and a failed call are
\* all an answer without a Situacao
SituacaoDa(resp) ==
    IF resp.tipo = "situacao" THEN resp ELSE [tipo |-> "sem_situacao"]

Dormir(segundos) == [op |-> "sleep", segundos |-> segundos]

\* get_lote_results without the "status != 4" test: the NFSe query is made
\* whatever the re-queried status is
get_lote_results_sem_precondicao(cfg, prot, respStatus, respNfse) ==
    LET status_result == check_lote_status(cfg, prot, respStatus)
        nfse_result == get_nfse_by_lote(cfg, prot, respNfse)
        consulta == Chamada("check_lote_status", prot)
        busca == Chamada("get_nfse_by_lote", prot)
        situacao == Troca("ConsultarSituacaoLoteRps", prot,
                          SituacaoDa(respStatus))
        lote == Troca("ConsultarLoteRps", prot, respNfse)
    IN  IF cfg.MOCK_WEBSERVICE
        THEN [ret |-> [sucesso |-> TRUE,
                       nfse_geradas |-> << [numero |-> "000000001",
                                            codigo_verificacao |-> "ABC123",
                                            link_visualizacao |-> "link"] >>,
                       total_nfse |-> 1, protocolo |-> prot],
              chamadas |-> << >>, remoto |-> << >>]
        ELSE IF ~status_result.sucesso
        THEN [ret |-> [sucesso |-> FALSE,
                       erro |-> "Erro ao consultar status",
                       codigo_erro |-> "STATUS_CHECK_ERROR"],
              chamadas |-> <<consulta>>, remoto |-> <<situacao>>]
        ELSE IF ~nfse_result.sucesso
        THEN [ret |-> [sucesso |-> FALSE, erro |-> "Erro ao obter NFSe",
                       codigo_erro |-> "NFSE_RETRIEVAL_ERROR"],
              chamadas |-> <<consulta, busca>>,
              remoto |-> <<situacao, lote>>]
        ELSE [ret |-> [sucesso |-> TRUE,
                       nfse_geradas |-> Get(nfse_result, "nfse_list", << >>),
                       total_nfse |-> Len(Get(nfse_result, "nfse_list", << >>)),
                       protocolo |-> prot,
                       status_final |-> Get(status_result, "status", SemStatus)],
              chamadas |-> <<consulta, busca>>,
              remoto |-> <<situacao, lote>>]

\* get_lote_results trusting the poller: no status re-query, the NFSe query
\* is made at once
get_lote_results_sem_reconsulta(cfg, prot, respStatus, respNfse) ==
    LET nfse_result == get_nfse_by_lote(cfg, prot, respNfse)
        busca == Chamada("get_nfse_by_lote", prot)
        lote == Troca("ConsultarLoteRps", prot, respNfse)
    IN  IF cfg.MOCK_WEBSERVICE
        THEN [ret |-> [sucesso |-> TRUE,
                       nfse_geradas |-> << [numero |-> "000000001",
                                            codigo_verificacao |-> "ABC123",
                                            link_visualizacao |-> "link"] >>,
                       total_nfse |-> 1, protocolo |-> prot],
              chamadas |-> << >>, remoto |-> << >>]
        ELSE IF ~nfse_result.sucesso
        THEN [ret |-> [sucesso |-> FALSE, erro |-> "Erro ao obter NFSe",
                       codigo_erro |-> "NFSE_RETRIEVAL_ERROR"],
              chamadas |-> <<busca>>, remoto |-> <<lote>>]
        ELSE [ret |-> [sucesso |-> TRUE,
                       nfse_geradas |-> Get(nfse_result, "nfse_list", << >>),
                       total_nfse |-> Len(Get(nfse_result, "nfse_list", << >>)),
                       protocolo |-> prot, status_final |-> 4],
              chamadas |-> <<busca>>, remoto |-> <<lote>>]

\* ret: the dict returned; chamadas: the calls it made on the way; remoto:
\* the exchanges those calls made with the remote service
get_lote_results(cfg, prot, respStatus, respNfse) ==
    LET status_result == check_lote_status(cfg, prot, respStatus)
        nfse_result == get_nfse_by_lote(cfg, prot, respNfse)
        consulta == Chamada("check_lote_status", prot)
        busca == Chamada("get_nfse_by_lote", prot)
        situacao == Troca("ConsultarSituacaoLoteRps", prot,
                          SituacaoDa(respStatus))
        lote == Troca("ConsultarLoteRps", prot, respNfse)
    IN  IF cfg.MOCK_WEBSERVICE
        THEN [ret |-> [sucesso |-> TRUE,
                       nfse_geradas |-> << [numero |-> "000000001",
                                            codigo_verificacao |-> "ABC123",
                                            link_visualizacao |-> "link"] >>,
                       total_nfse |-> 1, protocolo |-> prot],
              chamadas |-> << >>, remoto |-> << >>]
        ELSE IF ~status_result.sucesso
        THEN [ret |-> [sucesso |-> FALSE,
                       erro |-> "Erro ao consultar status",
                       codigo_erro |-> "STATUS_CHECK_ERROR"],
              chamadas |-> <<consulta>>, remoto |-> <<situacao>>]
        ELSE IF Get(status_result, "status", SemStatus) # 4
        THEN [ret |-> [sucesso |-> FALSE,
                       erro |-> "Lote ainda nao processado",
                       codigo_erro |-> "LOTE_NOT_PROCESSED"],
              chamadas |-> <<consulta>>, remoto |-> <<situacao>>]
        ELSE IF ~nfse_result.sucesso
        THEN [ret |-> [sucesso |-> FALSE, erro |-> "Erro ao obter NFSe",
                       codigo_erro |-> "NFSE_RETRIEVAL_ERROR"],
              chamadas |-> <<consulta, busca>>,
              remoto |-> <<situacao, lote>>]
        ELSE [ret |-> [sucesso |-> TRUE,
                       nfse_geradas |-> Get(nfse_result, "nfse_list", << >>),
                       total_nfse |-> Len(Get(nfse_result, "nfse_list", << >>)),
                       protocolo |-> prot,
                       status_final |-> Get(status_result, "status", SemStatus)],
              chamadas |-> <<consulta, busca>>,
              remoto |-> <<situacao, lote>>]

\* ----------------------------------------------------------- orchestrator

\* the issuer identity of config.py
PRESTADOR_CNPJ == "32649500000145"
PRESTADOR_IM == "123"

\* the module config: the three switches either way, the issuer identity
\* drawn from cnpjs and ims
Configs(cnpjs, ims) ==
    [ MOCK_WEBSERVICE : BOOLEAN, SKIP_SIGNATURE : BOOLEAN, TEST_MODE : BOOLEAN,
      PRESTADOR_CNPJ : cnpjs, PRESTADOR_IM : ims ]

\* the state at the entry of process_pending_invoices under one of configs
Inicio(configs) ==
    /\ config \in configs
    /\ max_tentativas \in 0..MaxTentativas
    /\ pc = "etapa1"
    /\ resultado_final =
         [ sucesso |-> FALSE, inicio |-> 0, fim |-> SemFim,
           duracao_segundos |-> 0, etapas_concluidas |-> << >>,
           protocolo |-> None, nfse_geradas |-> << >>, erros |-> << >> ]
    /\ invoices_data = NaoAtribuida
    /\ numero_lote = 0
    /\ xml_lote = NaoAtribuida
    /\ xml_assinado = NaoAtribuida
    /\ xmlsec = [iniciada |-> FALSE]
    /\ key = NaoAtribuida
    /\ assinatura = [saida |-> "nenhuma"]
    /\ resultado_envio = NaoAtribuida
    /\ protocolo = None
    /\ tentativa = 0
    /\ polling = [saida |-> "nenhuma", valor |-> Indefinido, erro |-> << >>]
    /\ resultado_final_ws = NaoAtribuida
    /\ agora = 0
    /\ chamadas = << >>
    /\ observados = << >>
    /\ remoto = << >>
    /\ lotes = << >>
    /\ outra = [pc |-> "sign_lote_rps_xml"]
    /\ invoices_list = NaoAtribuida

Init == Inicio(Configs({PRESTADOR_CNPJ}, {PRESTADOR_IM}))

\* Falha with step 3's return missing: the workflow goes on to submit
FalhaSegue(prefixo, detalhe) ==
    /\ resultado_final' = ComErro(resultado_final, prefixo, detalhe)
    /\ pc' = IF pc = "etapa3" THEN "etapa4" ELSE "retornado"

\* Falha with the append to erros missing
FalhaSemErro(prefixo, detalhe) ==
    /\ resultado_final' = resultado_final
    /\ pc' = "retornado"

\* Falha with step 4 run again after a failed submission
FalhaReenvia(prefixo, detalhe) ==
    /\ resultado_final' = ComErro(resultado_final, prefixo, detalhe)
    /\ pc' = IF pc = "etapa4" THEN "etapa4" ELSE "retornado"

\* Falha with the poller entered again after a failed result retrieval
FalhaVoltaAoPolling(prefixo, detalhe) ==
    /\ resultado_final' = ComErro(resultado_final, prefixo, detalhe)
    /\ pc' = IF pc = "etapa6" THEN "polling" ELSE "retornado"

\* a step's failure return: the error is appended and the function returns
Falha(prefixo, detalhe) ==
    /\ resultado_final' = ComErro(resultado_final, prefixo, detalhe)
    /\ pc' = "retornado"

\* SemFaturas testing for None only
SemFaturasSoNone(r) == EhNone(r)

\* "not invoices_data or len(invoices_data) == 0"
SemFaturas(r) == EhNone(r) \/ Len(r.lista) = 0

\* Sucesso with the end stamp missing, as on the failure returns
SucessoSemFim(rf, t) == [rf EXCEPT !.sucesso = TRUE]

\* SUCESSO COMPLETO: the epilogue after step 6
Sucesso(rf, t) ==
    [rf EXCEPT !.sucesso = TRUE, !.fim = t, !.duracao_segundos = t - rf.inicio]

\* ETAPA 1: obter faturas pendentes
Etapa1 ==
    /\ pc = "etapa1"
    /\ \E r \in get_invoices_to_process :
         /\ chamadas' = Append(chamadas, Chamada("get_invoices_to_process", None))
         /\ IF Levantou(r)
            THEN /\ Falha("Erro ao obter faturas pendentes", r.excecao)
                 /\ UNCHANGED invoices_data
            ELSE IF SemFaturas(r)
            THEN /\ Falha("Nenhuma fatura pendente para processar", "")
                 /\ invoices_data' = r
            ELSE /\ invoices_data' = r
                 /\ resultado_final' = ComEtapa(resultado_final, "obter_faturas")
                 /\ pc' = "etapa2"
    /\ UNCHANGED <<config, max_tentativas, invoices_list, outra,
                   remoto, lotes, xmlsec, key, assinatura,
                   resultado_envio, numero_lote, xml_lote, xml_assinado,
                   protocolo, tentativa, polling, resultado_final_ws, agora,
                   observados>>

\* ETAPA 2: construir XML do lote
Etapa2 ==
    /\ pc = "etapa2"
    /\ LET numero == gerar_numero_lote(agora)
           xml == create_lote_xml(config, invoices_data.lista, numero)
       IN  /\ numero_lote' = numero
           /\ lotes' = Append(lotes, numero)
           /\ chamadas' = chamadas \o << Chamada("gerar_numero_lote", None),
                                         Chamada("create_lote_xml", None) >>
           /\ IF Levantou(xml)
              THEN /\ Falha("Erro ao construir XML do lote", xml.excecao)
                   /\ UNCHANGED xml_lote
              ELSE IF EhNone(xml)
              THEN /\ Falha("Falha na construcao do XML do lote", "")
                   /\ xml_lote' = xml
              ELSE /\ xml_lote' = xml
                   /\ resultado_final' = ComEtapa(resultado_final, "construir_xml")
                   /\ pc' = "sign_lote_rps_xml"
    /\ UNCHANGED <<config, max_tentativas, invoices_list, outra,
                   remoto, xmlsec, key, assinatura,
                   resultado_envio, invoices_data, xml_assinado,
                   protocolo, tentativa, polling, resultado_final_ws, agora,
                   observados>>

\* an exception leaves sign_lote_rps_xml: the finally clause shuts xmlsec
\* down, the frame and its local key are gone, and control is back in step 3
Levanta(amb, lib, erro) ==
    /\ assinatura' = [saida |-> "raise", amb |-> amb, erro |-> erro]
    /\ key' = NaoAtribuida
    /\ xmlsec' = xmlsec_shutdown(lib)
    /\ pc' = "etapa3"

\* ETAPA 3, entering signer.sign_lote_rps_xml(xml_lote): the two bypass
\* switches, then xmlsec.init() and the key
sign_lote_rps_xml ==
    /\ pc = "sign_lote_rps_xml"
    /\ chamadas' = Append(chamadas, Chamada("sign_lote_rps_xml", None))
    /\ CASE Bypass(config) = "sem_assinatura" ->
              /\ assinatura' = [saida |-> "return", valor |-> tostring(xml_lote)]
              /\ pc' = "etapa3"
              /\ UNCHANGED <<xml_lote, xmlsec, key>>
         [] Bypass(config) = "simulada" ->
              LET comentado ==
                    [xml_lote EXCEPT !.Comentarios =
                        <<" ASSINATURA DIGITAL SIMULADA - MODO TESTE ">> \o @]
              IN  /\ xml_lote' = comentado
                  /\ assinatura' = [saida |-> "return",
                                    valor |-> tostring(comentado)]
                  /\ pc' = "etapa3"
                  /\ UNCHANGED <<xmlsec, key>>
         [] OTHER ->
              \E amb \in AmbientesAssinatura :
                 LET chave == _load_private_key_from_pfx(amb)
                 IN  /\ IF Levantou(chave)
                        THEN Levanta(amb, xmlsec_init(xmlsec), chave.excecao)
                        ELSE /\ xmlsec' = xmlsec_init(xmlsec)
                             /\ key' = chave
                             /\ assinatura' = [saida |-> "executando",
                                               amb |-> amb, i |-> 1]
                             /\ pc' = ProximaFase("sign_lote_rps_xml")
                     /\ UNCHANGED xml_lote
    /\ UNCHANGED <<config, max_tentativas, invoices_list, outra,
                   remoto, lotes, resultado_final, invoices_data,
                   numero_lote, xml_assinado, resultado_envio, protocolo,
                   tentativa, polling, resultado_final_ws, agora, observados>>

\* Fase 1: one turn of "for rps_element in rps_elements", or the end of the
\* loop.  The template is appended to the tree before xmlsec is asked to sign
_sign_internal_rps_elements ==
    /\ pc = "_sign_internal_rps_elements"
    /\ LET i == assinatura.i
       IN  IF i > Len(xml_lote.ListaRps)
           THEN /\ pc' = ProximaFase("_sign_internal_rps_elements")
                /\ UNCHANGED <<xml_lote, assinatura, key, xmlsec>>
           ELSE IF Falsy(xml_lote.ListaRps[i])
           THEN /\ assinatura' = [assinatura EXCEPT !.i = i + 1]
                /\ UNCHANGED <<pc, xml_lote, key, xmlsec>>
           ELSE \E assinou \in BOOLEAN :
                  LET com_template ==
                        append(xml_lote, PaiDaAssinaturaInterna(i),
                               _create_signature_template(
                                   "#" \o xml_lote.ListaRps[i]))
                      assinado ==
                        _apply_signature(com_template,
                                         Len(com_template.Signatures),
                                         key, assinou)
                  IN  IF Levantou(assinado)
                      THEN /\ xml_lote' = com_template
                           /\ Levanta(assinatura.amb, xmlsec, assinado.excecao)
                      ELSE /\ xml_lote' = assinado
                           /\ assinatura' = [assinatura EXCEPT !.i = i + 1]
                           /\ UNCHANGED <<pc, key, xmlsec>>
    /\ UNCHANGED <<config, max_tentativas, invoices_list, outra,
                   remoto, lotes, resultado_final, invoices_data,
                   numero_lote, xml_assinado, resultado_envio, protocolo,
                   tentativa, polling, resultado_final_ws, agora, chamadas,
                   observados>>

\* Fase 2: the LoteRps, whose template goes under the root
_sign_external_lote_element ==
    /\ pc = "_sign_external_lote_element"
    /\ IF Falsy(xml_lote.id)
       THEN /\ Levanta(assinatura.amb, xmlsec, Excecao.excecao)
            /\ UNCHANGED xml_lote
       ELSE \E assinou \in BOOLEAN :
              LET com_template ==
                    append(xml_lote, RAIZ,
                           _create_signature_template("#" \o xml_lote.id))
                  assinado ==
                    _apply_signature(com_template,
                                     Len(com_template.Signatures),
                                     key, assinou)
              IN  IF Levantou(assinado)
                  THEN /\ xml_lote' = com_template
                       /\ Levanta(assinatura.amb, xmlsec, assinado.excecao)
                  ELSE /\ xml_lote' = assinado
                       /\ pc' = ProximaFase("_sign_external_lote_element")
                       /\ UNCHANGED <<assinatura, key, xmlsec>>
    /\ UNCHANGED <<config, max_tentativas, invoices_list, outra,
                   remoto, lotes, resultado_final, invoices_data,
                   numero_lote, xml_assinado, resultado_envio, protocolo,
                   tentativa, polling, resultado_final_ws, agora, chamadas,
                   observados>>

\* the end of the try: etree.tostring, return xml_bytes, and the finally
RetornoAssinado ==
    /\ pc = "tostring"
    /\ assinatura' = [saida |-> "return", amb |-> assinatura.amb,
                      valor |-> tostring(xml_lote)]
    /\ key' = NaoAtribuida
    /\ xmlsec' = xmlsec_shutdown(xmlsec)
    /\ pc' = "etapa3"
    /\ UNCHANGED <<config, max_tentativas, invoices_list, outra,
                   remoto, lotes, resultado_final, invoices_data,
                   numero_lote, xml_lote, xml_assinado, resultado_envio,
                   protocolo, tentativa, polling, resultado_final_ws, agora,
                   chamadas, observados>>

\* ETAPA 3: assinar XML digitalmente, what the signer handed back
Etapa3 ==
    /\ pc = "etapa3"
    /\ IF assinatura.saida = "raise"
       THEN /\ Falha("Erro ao assinar XML", assinatura.erro)
            /\ UNCHANGED xml_assinado
       ELSE IF EhNone(assinatura.valor)
       THEN /\ Falha("Falha na assinatura digital do XML", "")
            /\ xml_assinado' = assinatura.valor
       ELSE /\ xml_assinado' = assinatura.valor
            /\ resultado_final' = ComEtapa(resultado_final, "assinar_xml")
            /\ pc' = "etapa4"
    /\ UNCHANGED <<config, max_tentativas, invoices_list, outra,
                   remoto, lotes, xmlsec, key, assinatura,
                   resultado_envio, invoices_data, numero_lote, xml_lote,
                   protocolo, tentativa, polling, resultado_final_ws, agora,
                   chamadas, observados>>

\* ETAPA 4: enviar para o web service; on success step 5 enters the poller
\* the protocol read from the submission result being a fixed one
ProtocoloDoEnvioFixo(envio) == "PROT_0"

\* "protocolo = resultado_envio.get('protocolo')"
ProtocoloDoEnvio(envio) == Get(envio, "protocolo", None)

Etapa4 ==
    /\ pc = "etapa4"
    /\ \E resp \in RespostasEnvio :
         LET envio == send_lote_rps(config, xml_assinado, resp, agora)
         IN  /\ chamadas' = Append(chamadas, Chamada("send_lote_rps", None))
             /\ remoto' = remoto \o Trocas(config, "RecepcionarLoteRps",
                                           None, resp)
             /\ IF Levantou(envio)
                THEN /\ Falha("Erro ao enviar lote", envio.excecao)
                     /\ UNCHANGED <<resultado_envio, protocolo, tentativa>>
                ELSE IF ~envio.sucesso
                THEN /\ Falha("Falha no envio",
                              Get(envio, "erro", "Erro desconhecido"))
                     /\ resultado_envio' = envio
                     /\ UNCHANGED <<protocolo, tentativa>>
                ELSE IF Falsy(ProtocoloDoEnvio(envio))
                THEN /\ Falha("Protocolo nao retornado pelo web service", "")
                     /\ resultado_envio' = envio
                     /\ protocolo' = ProtocoloDoEnvio(envio)
                     /\ UNCHANGED tentativa
                ELSE /\ resultado_envio' = envio
                     /\ protocolo' = ProtocoloDoEnvio(envio)
                     /\ resultado_final' =
                          ComEtapa([resultado_final EXCEPT
                                      !.protocolo = ProtocoloDoEnvio(envio)],
                                   "enviar_lote")
                     /\ tentativa' = 1
                     /\ pc' = "polling"
    /\ UNCHANGED <<config, max_tentativas, invoices_list, outra,
                   lotes, xmlsec, key, assinatura,
                   invoices_data, numero_lote, xml_lote,
                   xml_assinado, polling, resultado_final_ws, agora,
                   observados>>

\* the statuses on which the loop returns
TerminalSoSucesso(status) == status = 4

\* Terminal with the unknown codes ending the loop as well
TerminalComDesconhecido(status) == status \notin {1, 2}

Terminal(status) == status \in {3, 4}

\* IteracaoPolling giving up at the first poll failure
IteracaoPollingSemRetry(tent, maximo, resultado_status) ==
    IF Levantou(resultado_status) \/ ~resultado_status.sucesso
    THEN [fim |-> "raise", dorme |-> FALSE,
          erro |-> <<"Erro persistente durante polling", "">>]
    ELSE IF Terminal(Get(resultado_status, "status", SemStatus))
    THEN [fim |-> "return", dorme |-> FALSE, valor |-> resultado_status]
    ELSE [fim |-> "continua", dorme |-> tent < maximo]

\* IteracaoPolling without the "if tentativa == max_tentativas: raise" of a
\* failed query: the loop just goes on, and ends in the timeout
IteracaoPollingSemPersistente(tent, maximo, resultado_status) ==
    IF Levantou(resultado_status) \/ ~resultado_status.sucesso
    THEN [fim |-> "continua", dorme |-> FALSE]
    ELSE IF Terminal(Get(resultado_status, "status", SemStatus))
    THEN [fim |-> "return", dorme |-> FALSE, valor |-> resultado_status]
    ELSE [fim |-> "continua", dorme |-> tent < maximo]

\* one iteration of the for loop of _fazer_polling_status, given what the
\* status query produced: an exception raised inside the try (by the query,
\* or the persistent-failure raise of the last attempt) lands in the except
\* clause of the same iteration.  check_lote_status itself catches every
\* Exception, so only the second kind occurs
IteracaoPolling(tent, maximo, resultado_status) ==
    IF Levantou(resultado_status)
    THEN IF tent = maximo
         THEN [fim |-> "raise", dorme |-> FALSE,
               erro |-> <<"Erro persistente durante polling",
                          resultado_status.excecao>>]
         ELSE [fim |-> "continua", dorme |-> tent < maximo]
    ELSE IF ~resultado_status.sucesso
    THEN IF tent = maximo
         THEN [fim |-> "raise", dorme |-> FALSE,
               erro |-> <<"Erro persistente durante polling",
                          "Falha persistente na consulta de status">>]
         ELSE [fim |-> "continua", dorme |-> FALSE]
    ELSE IF Terminal(Get(resultado_status, "status", SemStatus))
    THEN [fim |-> "return", dorme |-> FALSE, valor |-> resultado_status]
    ELSE [fim |-> "continua", dorme |-> tent < maximo]

\* what the poller saw of one status query: the status code of a successful
\* result, FALHA for a sucesso=false result, EXCECAO for a raised exception
FALHA == 0
EXCECAO == -1
Observacao(resultado_status) ==
    IF Levantou(resultado_status) THEN EXCECAO
    ELSE IF ~resultado_status.sucesso THEN FALHA
    ELSE resultado_status.status

\* ProximaTentativa with poll failures left out of the attempt budget
ProximaTentativaSoStatus(tent, resultado_status) ==
    IF Levantou(resultado_status) \/ ~resultado_status.sucesso
    THEN tent ELSE tent + 1

\* "for tentativa in range(1, max_tentativas + 1)": every iteration, whatever
\* its query produced, moves on to the next attempt number
ProximaTentativa(tent, resultado_status) == tent + 1

\* ETAPA 5, inside _fazer_polling_status: one attempt of the loop
_fazer_polling_status ==
    /\ pc = "polling"
    /\ tentativa <= max_tentativas
    /\ \E resp \in RespostasStatus :
         LET resultado_status == check_lote_status(config, protocolo, resp)
             it == IteracaoPolling(tentativa, max_tentativas, resultado_status)
         IN  /\ chamadas' =
                  chamadas \o << Chamada("check_lote_status", protocolo) >>
                           \o (IF it.dorme THEN << Dormir(IntervaloSegundos) >>
                               ELSE << >>)
             /\ agora' = IF it.dorme THEN agora + IntervaloSegundos ELSE agora
             /\ observados' = Append(observados, Observacao(resultado_status))
             /\ remoto' = remoto \o Trocas(config, "ConsultarSituacaoLoteRps",
                                           protocolo, SituacaoDa(resp))
             /\ IF it.fim = "continua"
                THEN /\ tentativa' = ProximaTentativa(tentativa, resultado_status)
                     /\ UNCHANGED <<polling, pc>>
                ELSE /\ polling' = [saida |-> it.fim,
                                    valor |-> Get(it, "valor", Indefinido),
                                    erro |-> Get(it, "erro", << >>)]
                     /\ pc' = "etapa5"
                     /\ UNCHANGED tentativa
    /\ UNCHANGED <<config, max_tentativas, invoices_list, outra,
                   lotes, xmlsec, key, assinatura,
                   resultado_envio, resultado_final, invoices_data,
                   numero_lote, xml_lote, xml_assinado, protocolo,
                   resultado_final_ws>>

\* PollingEsgotado handing back the last status instead of raising
PollingEsgotadoRetorna ==
    /\ pc = "polling"
    /\ tentativa > max_tentativas
    /\ polling' = [saida |-> "return",
                   valor |-> [sucesso |-> TRUE, status |-> 2,
                              status_descricao |-> "Processando"],
                   erro |-> << >>]
    /\ pc' = "etapa5"
    /\ UNCHANGED <<config, max_tentativas, invoices_list, outra,
                   remoto, lotes, xmlsec, key, assinatura,
                   resultado_envio, resultado_final, invoices_data,
                   numero_lote, xml_lote, xml_assinado, protocolo, tentativa,
                   resultado_final_ws, agora, chamadas, observados>>

\* the for loop is exhausted: raise after the loop
PollingEsgotado ==
    /\ pc = "polling"
    /\ tentativa > max_tentativas
    /\ polling' = [saida |-> "raise", valor |-> Indefinido,
                   erro |-> <<"Timeout no polling", "">>]
    /\ pc' = "etapa5"
    /\ UNCHANGED <<config, max_tentativas, invoices_list, outra,
                   remoto, lotes, xmlsec, key, assinatura,
                   resultado_envio, resultado_final, invoices_data,
                   numero_lote, xml_lote, xml_assinado, protocolo, tentativa,
                   resultado_final_ws, agora, chamadas, observados>>

\* Veredito letting every returned status through
VereditoSempreSucesso(status) == "sucesso"

\* step 5's reading of status_final['status']: "== 3", "elif != 4", else
Veredito(status) ==
    IF status = 3 THEN "erro"
    ELSE IF status # 4 THEN "inesperado"
    ELSE "sucesso"

\* ETAPA 5, back in process_pending_invoices: what the poller handed back
Etapa5 ==
    /\ pc = "etapa5"
    /\ IF polling.saida = "raise"
       THEN Falha("Erro durante polling de status", polling.erro[1])
       ELSE IF Veredito(polling.valor.status) = "erro"
       THEN Falha("Lote processado com erro",
                  Get(polling.valor, "erro", "Erro desconhecido"))
       ELSE IF Veredito(polling.valor.status) = "inesperado"
       THEN Falha("Status final inesperado",
                  Get(polling.valor, "status_descricao", "Desconhecido"))
       ELSE /\ resultado_final' = ComEtapa(resultado_final, "polling_status")
            /\ pc' = "etapa6"
    /\ UNCHANGED <<config, max_tentativas, invoices_list, outra,
                   remoto, lotes, xmlsec, key, assinatura,
                   resultado_envio, invoices_data, numero_lote, xml_lote,
                   xml_assinado, protocolo, tentativa, polling,
                   resultado_final_ws, agora, chamadas, observados>>

\* ETAPA 6: obter resultados finais, then the success epilogue
Etapa6 ==
    /\ pc = "etapa6"
    /\ \E respStatus \in RespostasStatus, respNfse \in RespostasNfse :
         LET g == get_lote_results(config, protocolo, respStatus, respNfse)
             resultado_ws == g.ret
             nfse_list == Get(resultado_ws, "nfse_list", << >>)
         IN  /\ chamadas' =
                  chamadas \o << Chamada("get_lote_results", protocolo) >>
                           \o g.chamadas
             /\ remoto' = remoto \o g.remoto
             /\ IF Levantou(resultado_ws)
                THEN /\ Falha("Erro ao obter resultados finais",
                              resultado_ws.excecao)
                     /\ UNCHANGED resultado_final_ws
                ELSE IF ~resultado_ws.sucesso
                THEN /\ Falha("Erro ao obter resultados",
                              Get(resultado_ws, "erro", "Erro desconhecido"))
                     /\ resultado_final_ws' = resultado_ws
                ELSE /\ resultado_final_ws' = resultado_ws
                     /\ resultado_final' =
                          Sucesso(ComEtapa([resultado_final EXCEPT
                                              !.nfse_geradas = nfse_list],
                                           "obter_resultados"),
                                  agora)
                     /\ pc' = "retornado"
    /\ UNCHANGED <<config, max_tentativas, invoices_list, outra,
                   lotes, xmlsec, key, assinatura,
                   resultado_envio, invoices_data, numero_lote, xml_lote,
                   xml_assinado, protocolo, tentativa, polling, agora,
                   observados>>

\* The outer "except Exception" of process_pending_invoices (lines 216-225)
\* has no action: every collaborator call sits inside its step's own
\* try/except, so no exception modelled here reaches it.  The soap_client
\* functions catch every Exception themselves, so the except clauses of steps
\* 4 and 6 are never entered either.
Next ==
    \/ Etapa1
    \/ Etapa2
    \/ sign_lote_rps_xml
    \/ _sign_internal_rps_elements
    \/ _sign_external_lote_element
    \/ RetornoAssinado
    \/ Etapa3
    \/ Etapa4
    \/ _fazer_polling_status
    \/ PollingEsgotado
    \/ Etapa5
    \/ Etapa6

Spec == Init /\ [][Next]_vars

\* --------------------------------------------- issuer identity left out
\* config.py is edited by whoever installs the program ("Substitua pelo
\* CNPJ ..."): PRESTADOR_CNPJ and PRESTADOR_IM can be left empty
InitIdentidade ==
    Inicio(Configs({PRESTADOR_CNPJ, ""}, {PRESTADOR_IM, ""}))

SpecIdentidade == InitIdentidade /\ [][Next]_vars

\* ------------------------------------- two invocations in one process
\* A second invocation of process_pending_invoices on another thread of the
\* same interpreter has its own locals (result dict, tree, key, protocol);
\* what it shares with the first is the module config and the xmlsec
\* library, which sign_lote_rps_xml initialises and shuts down per call.

\* the second invocation enters sign_lote_rps_xml: the bypass returns, or
\* xmlsec.init() and the try block is entered
OutraAssinaturaEntra ==
    /\ outra.pc = "sign_lote_rps_xml"
    /\ IF Bypass(config) = "assinar"
       THEN /\ xmlsec' = xmlsec_init(xmlsec)
            /\ outra' = [pc |-> "try"]
       ELSE /\ outra' = [pc |-> "retornou"]
            /\ UNCHANGED xmlsec
    /\ UNCHANGED <<config, max_tentativas, invoices_list, pc,
                   resultado_final, invoices_data,
                   numero_lote, xml_lote, xml_assinado, key, assinatura,
                   resultado_envio, protocolo, tentativa, polling,
                   resultado_final_ws, agora, chamadas, observados, remoto,
                   lotes>>

\* the second invocation leaves the try block, by return or by exception:
\* the finally clause runs xmlsec.shutdown()
OutraAssinaturaSai ==
    /\ outra.pc = "try"
    /\ xmlsec' = xmlsec_shutdown(xmlsec)
    /\ outra' = [pc |-> "retornou"]
    /\ UNCHANGED <<config, max_tentativas, invoices_list, pc,
                   resultado_final, invoices_data,
                   numero_lote, xml_lote, xml_assinado, key, assinatura,
                   resultado_envio, protocolo, tentativa, polling,
                   resultado_final_ws, agora, chamadas, observados, remoto,
                   lotes>>

NextConcorrente == Next \/ OutraAssinaturaEntra \/ OutraAssinaturaSai

SpecConcorrente == Init /\ [][NextConcorrente]_vars

\* ------------------------------------------------ process_single_invoice
\* process_single_invoice(invoice_data): the list of one invoice is built and
\* the main function is called, with no argument
process_single_invoice ==
    /\ pc = "etapa1"
    /\ invoices_list = NaoAtribuida
    /\ \E invoice_data \in Faturas : invoices_list' = [lista |-> <<invoice_data>>]
    /\ UNCHANGED <<config, max_tentativas, pc, resultado_final, invoices_data,
                   numero_lote, xml_lote, xml_assinado, xmlsec, key,
                   assinatura, resultado_envio, protocolo, tentativa, polling,
                   resultado_final_ws, agora, chamadas, observados, remoto,
                   lotes, outra>>

NextFaturaUnica == process_single_invoice \/ Next

SpecFaturaUnica == Init /\ [][NextFaturaUnica]_vars

\* ------------------------------------------------- several invocations
\* process_pending_invoices is entered once per run of the program, and the
\* program can be run again, or twice at once: each invocation takes its
\* batch number from the wall clock when it reaches step 2.
MaxRelogio == 61
MaxInvocacoes == 2

ConfigDeFabrica ==
    [MOCK_WEBSERVICE |-> TRUE, SKIP_SIGNATURE |-> TRUE, TEST_MODE |-> FALSE,
     PRESTADOR_CNPJ |-> PRESTADOR_CNPJ, PRESTADOR_IM |-> PRESTADOR_IM]

InitLotes ==
    /\ Init
    /\ config = ConfigDeFabrica
    /\ max_tentativas = MaxTentativas

\* a second of wall-clock time goes by
Relogio ==
    /\ agora < MaxRelogio
    /\ agora' = agora + 1
    /\ UNCHANGED <<config, max_tentativas, invoices_list, outra,
                   pc, resultado_final, invoices_data,
                   numero_lote, xml_lote, xml_assinado, xmlsec, key,
                   assinatura, resultado_envio, protocolo, tentativa, polling,
                   resultado_final_ws, chamadas, observados, remoto, lotes>>

\* one more invocation reaches "numero_lote = gerar_numero_lote()"
OutraInvocacao ==
    /\ Len(lotes) < MaxInvocacoes
    /\ lotes' = Append(lotes, gerar_numero_lote(agora))
    /\ UNCHANGED <<config, max_tentativas, invoices_list, outra,
                   pc, resultado_final, invoices_data,
                   numero_lote, xml_lote, xml_assinado, xmlsec, key,
                   assinatura, resultado_envio, protocolo, tentativa, polling,
                   resultado_final_ws, agora, chamadas, observados, remoto>>

NextLotes == Relogio \/ OutraInvocacao

SpecLotes == InitLotes /\ [][NextLotes]_vars


\* ================================================================ claims
Retornado == pc = "retornado"
Etapas == resultado_final.etapas_concluidas
Erros == resultado_final.erros
Prefixo(n) == SubSeq(ETAPAS, 1, n)

\* the workflow step a collaborator call belongs to: status queries and
\* sleeps are the poller's (step 5) until get_lote_results has been entered
EtapaDaChamada(i) ==
    LET op == chamadas[i].op
    IN  CASE op = "get_invoices_to_process" -> 1
          [] op \in {"gerar_numero_lote", "create_lote_xml"} -> 2
          [] op = "sign_lote_rps_xml" -> 3
          [] op = "send_lote_rps" -> 4
          [] op \in {"get_lote_results", "get_nfse_by_lote"} -> 6
          [] OTHER ->
               IF \E j \in 1..(i - 1) : chamadas[j].op = "get_lote_results"
               THEN 6 ELSE 5

\* status queries issued by the poller
ConsultasDoPoller ==
    Cardinality({ i \in 1..Len(chamadas) :
                    chamadas[i].op = "check_lote_status" /\ EtapaDaChamada(i) = 5 })

\* the error messages each step can append
ErrosDaEtapa(k) ==
    CASE k = 1 -> {"Nenhuma fatura pendente para processar",
                   "Erro ao obter faturas pendentes"}
      [] k = 2 -> {"Falha na construcao do XML do lote",
                   "Erro ao construir XML do lote"}
      [] k = 3 -> {"Falha na assinatura digital do XML", "Erro ao assinar XML"}
      [] k = 4 -> {"Falha no envio", "Protocolo nao retornado pelo web service",
                   "Erro ao enviar lote"}
      [] k = 5 -> {"Lote processado com erro", "Status final inesperado",
                   "Erro durante polling de status"}
      [] k = 6 -> {"Erro ao obter resultados", "Erro ao obter resultados finais"}
      [] OTHER -> {}

\* the number of completed steps at each position of the function
EtapasEm(posicao) ==
    CASE posicao = "etapa1" -> 0
      [] posicao = "etapa2" -> 1
      [] posicao \in {"sign_lote_rps_xml", "_sign_internal_rps_elements",
                      "_sign_external_lote_element", "tostring", "etapa3"} -> 2
      [] posicao = "etapa4" -> 3
      [] posicao \in {"polling", "etapa5"} -> 4
      [] posicao = "etapa6" -> 5

\* C1: a failure at step k makes the function return at once with
\* sucesso=false and step k's error appended, and no collaborator call of a
\* step after k is ever made: every call issued belongs to a step that is at
\* most one past the completed ones, an error in erros means the function has
\* returned, and a failed return carries an error of the first uncompleted step.
C1_FalhaInterrompe ==
    /\ \A i \in 1..Len(chamadas) : EtapaDaChamada(i) <= Len(Etapas) + 1
    /\ Len(Erros) > 0 => Retornado /\ ~resultado_final.sucesso
    /\ (Retornado /\ ~resultado_final.sucesso) =>
          /\ Len(Etapas) < 6
          /\ Len(Erros) > 0
          /\ Erros[Len(Erros)][1] \in ErrosDaEtapa(Len(Etapas) + 1)

\* a failed submission after three completed steps
C1_Witness ==
    /\ Retornado
    /\ ~resultado_final.sucesso
    /\ Len(Etapas) = 3
    /\ chamadas[Len(chamadas)].op = "send_lote_rps"

\* C2: process_pending_invoices never stops anywhere but at a return (no
\* exception leaves it), and what it returns is a complete Workflow Result
\* whose erros is non-empty whenever sucesso is false.
C2_SempreRetornaResultado ==
    /\ ~Retornado => ENABLED Next
    /\ Retornado =>
          /\ DOMAIN resultado_final =
                {"sucesso", "inicio", "fim", "duracao_segundos",
                 "etapas_concluidas", "protocolo", "nfse_geradas", "erros"}
          /\ ~resultado_final.sucesso => Len(Erros) > 0

\* a failed return whose cause was the exception the poller raised for a
\* status query that failed on the last attempt
C2_Witness ==
    /\ Retornado
    /\ ~resultado_final.sucesso
    /\ Len(observados) > 0
    /\ observados[Len(observados)] = FALHA
    /\ Erros = << <<"Erro durante polling de status",
                    "Erro persistente durante polling">> >>

\* C3: sucesso is true exactly when all six steps completed, and then
\* etapas_concluidas is the six names in order and fim and duracao_segundos
\* are stamped; at every position the completed steps are exactly the steps
\* that succeeded so far, in order, also on a failure return.
C3_SucessoSseSeisEtapas ==
    /\ resultado_final.sucesso <=> Etapas = ETAPAS
    /\ resultado_final.sucesso =>
          /\ Retornado
          /\ resultado_final.fim # SemFim
          /\ resultado_final.duracao_segundos =
                resultado_final.fim - resultado_final.inicio
    /\ ~Retornado => Etapas = Prefixo(EtapasEm(pc))
    /\ Retornado => Etapas = Prefixo(Len(Etapas))

\* a successful return after the poller slept at least once
C3_Witness ==
    /\ Retornado
    /\ resultado_final.sucesso
    /\ resultado_final.duracao_segundos >= IntervaloSegundos

\* C4: every failure return has fim set and duracao_segundos recorded, as the
\* success return has.
C4_FimEmTodaFalha ==
    (Retornado /\ ~resultado_final.sucesso) =>
        /\ resultado_final.fim # SemFim
        /\ resultado_final.duracao_segundos =
              resultado_final.fim - resultado_final.inicio

\* C5: on a successful return nfse_geradas is the list of Generated Invoices
\* that get_lote_results returned; with the simulated web service, whose
\* retrieval returns the one invoice 000000001, it has exactly one entry.
C5_NfseGeradasDoRetriever ==
    (Retornado /\ resultado_final.sucesso) =>
        /\ resultado_final.nfse_geradas =
              Get(resultado_final_ws, "nfse_geradas", << >>)
        /\ config.MOCK_WEBSERVICE =>
              /\ Len(resultado_final.nfse_geradas) = 1
              /\ resultado_final.nfse_geradas[1].numero = "000000001"

\* the data source handed back an empty list or None
ColecaoVazia ==
    /\ invoices_data # NaoAtribuida
    /\ EhNone(invoices_data) \/ Len(invoices_data.lista) = 0

\* C6: when the data source returns an empty or null collection the function
\* returns sucesso=false with no completed step and exactly one error, and the
\* only collaborator call ever made is the one to the data source.
C6_ColecaoVaziaNaoChamaNada ==
    ColecaoVazia =>
        /\ Retornado
        /\ ~resultado_final.sucesso
        /\ Etapas = << >>
        /\ Len(Erros) = 1
        /\ Len(chamadas) = 1
        /\ chamadas[1].op = "get_invoices_to_process"

\* the data source returned an empty list (not None) and step 1 has run
C6_Witness ==
    /\ pc # "etapa1"
    /\ ~EhNone(invoices_data)
    /\ invoices_data # NaoAtribuida
    /\ Len(invoices_data.lista) = 0

\* step 4 completed, so step 5 has called the poller
PollerChamado == Len(Etapas) >= 4

\* the poller has ended (returned or raised) in this execution
PollerEncerrado == polling.saida # "nenhuma"

\* C7: when the k-th status query of the poller is the first to produce a
\* terminal code (3 or 4) and the earlier ones produced 1 or 2, the poller
\* returns that status after exactly k queries and issues no further one.
C7_TerminalEncerraPolling ==
    \A k \in 1..Len(observados) :
        ( /\ observados[k] \in {3, 4}
          /\ \A j \in 1..(k - 1) : observados[j] \in {1, 2} ) =>
            /\ k = Len(observados)
            /\ k <= max_tentativas
            /\ pc # "polling"
            /\ polling.saida = "return"
            /\ polling.valor.status = observados[k]
            /\ ConsultasDoPoller = k

\* the script [2, 3]: ERROR on the second query with attempts to spare
C7_Witness ==
    /\ observados = <<2, 3>>
    /\ max_tentativas > 2
    /\ PollerEncerrado

\* C8: when each of the max_tentativas status queries produced 1 or 2, the
\* poller issues no further query and ends by raising the timeout error, after
\* exactly max_tentativas queries, handing no status back.
C8_TimeoutAposMaxTentativas ==
    ( /\ PollerChamado
      /\ Len(observados) = max_tentativas
      /\ \A i \in 1..Len(observados) : observados[i] \in {1, 2} ) =>
        /\ ConsultasDoPoller = max_tentativas
        /\ pc = "polling" => tentativa > max_tentativas
        /\ pc # "polling" =>
              /\ polling.saida = "raise"
              /\ polling.erro[1] = "Timeout no polling"
              /\ EhNone(polling.valor)

\* three queries that never leave PROCESSING, and the poller has ended
C8_Witness ==
    /\ max_tentativas = 3
    /\ observados = <<2, 2, 2>>
    /\ PollerEncerrado

PollFalhou(i) == observados[i] \in {FALHA, EXCECAO}

\* C9: a poll failure (sucesso=false or an exception) on a non-final attempt
\* does not end the poller: the next attempt follows; a poll failure on the
\* last attempt ends it with the persistent-failure error, which is not the
\* timeout error.
C9_FalhaDePollRepetida ==
    \A i \in 1..Len(observados) :
        PollFalhou(i) =>
            /\ i < max_tentativas =>
                  \/ Len(observados) > i
                  \/ pc = "polling" /\ tentativa = i + 1
            /\ i = max_tentativas =>
                  /\ pc # "polling"
                  /\ polling.saida = "raise"
                  /\ polling.erro[1] = "Erro persistente durante polling"
                  /\ polling.erro[1] # "Timeout no polling"

\* poll failures on every attempt through the last
C9_Witness ==
    /\ max_tentativas = 3
    /\ observados = <<FALHA, FALHA, FALHA>>
    /\ PollerEncerrado

\* C10: between two consecutive status queries of the poller there is exactly
\* one sleep of the configured interval, whatever the earlier query produced,
\* and no sleep follows a terminal status or the final attempt.
C10_DormeEntreConsultas ==
    \A i \in 1..Len(chamadas) :
        /\ ( /\ chamadas[i].op = "check_lote_status"
             /\ EtapaDaChamada(i) = 5
             /\ i < Len(chamadas)
             /\ EtapaDaChamada(i + 1) = 5 ) =>
                /\ chamadas[i + 1] = Dormir(IntervaloSegundos)
                /\ i + 1 < Len(chamadas) =>
                      chamadas[i + 2].op = "check_lote_status"
        /\ chamadas[i].op = "sleep" =>
                /\ i > 1
                /\ chamadas[i - 1].op = "check_lote_status"
                /\ \/ i = Len(chamadas) /\ pc = "polling"
                                        /\ tentativa <= max_tentativas
                   \/ i < Len(chamadas)
                        /\ chamadas[i + 1].op = "check_lote_status"
                        /\ EtapaDaChamada(i + 1) = 5

\* C11: whatever the remote answers (codes 1..4, unknown codes, failure
\* results, exceptions), the poller issues at most max_tentativas status
\* queries; every query, failed or not, uses up one attempt of the same
\* budget; while the poller runs it can always take its next step; and it ends
\* either returning a terminal status (3 or 4) or raising.
C11_PollerTerminaNoOrcamento ==
    /\ ConsultasDoPoller <= max_tentativas
    /\ Len(observados) = ConsultasDoPoller
    /\ pc = "polling" =>
          /\ tentativa = Len(observados) + 1
          /\ ENABLED (_fazer_polling_status \/ PollingEsgotado)
    /\ PollerEncerrado =>
          \/ /\ polling.saida = "return"
             /\ polling.valor.status \in {3, 4}
             /\ observados[Len(observados)] = polling.valor.status
          \/ /\ polling.saida = "raise"
             /\ EhNone(polling.valor)
             /\ Len(observados) = max_tentativas

\* a failure result, an unknown code and a non-terminal code use up all
\* three attempts, and the poller has ended by raising
C11_Witness ==
    /\ max_tentativas = 3
    /\ observados = <<FALHA, 5, 2>>
    /\ polling.saida = "raise"

\* how many times a collaborator operation was called
Vezes(op) == Cardinality({ i \in 1..Len(chamadas) : chamadas[i].op = op })

\* status queries issued from inside get_lote_results
ConsultasDaEtapa6 ==
    Cardinality({ i \in 1..Len(chamadas) :
                    chamadas[i].op = "check_lote_status" /\ EtapaDaChamada(i) = 6 })

\* C12: in one execution send_lote_rps is called at most once, whatever it
\* produced, and so is result retrieval (with its one status re-check and one
\* NFSe query); a submission that did not complete step 4, or a retrieval that
\* did not complete step 6, has made the function return failed with that
\* step's error; only the poller's status query is ever issued more than once.
C12_EnvioNuncaRepetido ==
    /\ Vezes("send_lote_rps") <= 1
    /\ Vezes("get_lote_results") <= 1
    /\ Vezes("get_nfse_by_lote") <= 1
    /\ ConsultasDaEtapa6 <= 1
    /\ (Vezes("send_lote_rps") = 1 /\ Len(Etapas) < 4) =>
          /\ Retornado
          /\ ~resultado_final.sucesso
          /\ Len(Erros) = 1
          /\ Erros[1][1] \in ErrosDaEtapa(4)
    /\ (Vezes("get_lote_results") = 1 /\ Len(Etapas) < 6) =>
          /\ Retornado
          /\ ~resultado_final.sucesso
          /\ Len(Erros) = 1
          /\ Erros[1][1] \in ErrosDaEtapa(6)

\* a transport failure of the one submission has ended the workflow
C12_Witness ==
    /\ Retornado
    /\ Vezes("send_lote_rps") = 1
    /\ resultado_envio # NaoAtribuida
    /\ Get(resultado_envio, "codigo_erro", "") = "TRANSPORT_ERROR"
    /\ Erros = << <<"Falha no envio", "Erro de transporte">> >>

\* the Submission Result says sucesso=true and carries no protocol
EnvioSemProtocolo ==
    /\ resultado_envio # NaoAtribuida
    /\ resultado_envio.sucesso
    /\ Get(resultado_envio, "protocolo", None) \in {None, ""}

\* C13: when the Submission Result reports sucesso=true without a protocol,
\* the workflow has failed at step 4: it returned with sucesso=false, protocolo
\* still null, the first three steps and no 'enviar_lote' in
\* etapas_concluidas, the missing-protocol error, and no status query.
C13_SemProtocoloFalha ==
    EnvioSemProtocolo =>
        /\ Retornado
        /\ ~resultado_final.sucesso
        /\ resultado_final.protocolo = None
        /\ Etapas = Prefixo(3)
        /\ Erros = << <<"Protocolo nao retornado pelo web service", "">> >>
        /\ Vezes("check_lote_status") = 0

\* the remote answered with an empty Protocolo element
C13_Witness ==
    /\ EnvioSemProtocolo
    /\ Vezes("send_lote_rps") = 1
    /\ ~config.MOCK_WEBSERVICE

\* the poller ended with SUCCESS as its final observed state
PollerSucesso ==
    /\ polling.saida = "return"
    /\ polling.valor.status = 4
    /\ observados[Len(observados)] = 4

\* C14: 'polling_status' is appended, and the Result Retriever invoked, only
\* when the poller's final observed state is 4; once step 5 has handled any
\* other ending (status 3, another status, the timeout, a persistent poll
\* failure), the function has returned sucesso=false with four steps
\* completed and the retriever was never called.
C14_SoSucessoProssegue ==
    /\ Len(Etapas) >= 5 => PollerEncerrado /\ PollerSucesso
    /\ Vezes("get_lote_results") > 0 => PollerEncerrado /\ PollerSucesso
    /\ (PollerEncerrado /\ pc # "etapa5" /\ ~PollerSucesso) =>
          /\ Retornado
          /\ ~resultado_final.sucesso
          /\ Etapas = Prefixo(4)
          /\ Len(Erros) = 1
          /\ Erros[1][1] \in ErrosDaEtapa(5)
          /\ Vezes("get_lote_results") = 0
          /\ Vezes("get_nfse_by_lote") = 0

\* the poller returned ERROR (3) and step 5 has handled it
C14_Witness ==
    /\ Retornado
    /\ polling.saida = "return"
    /\ polling.valor.status = 3
    /\ Erros[1][1] = "Lote processado com erro"

\* the Signature elements of the tree being signed, in the order appended
Sigs == IF xml_lote = NaoAtribuida THEN << >> ELSE xml_lote.Signatures

\* both bypass switches are off: sign_lote_rps_xml really signs
AssinaturaHabilitada == ~config.SKIP_SIGNATURE /\ ~config.TEST_MODE

\* the call of sign_lote_rps_xml has returned bytes with signing enabled
AssinadoDevolvido == AssinaturaHabilitada /\ assinatura.saida = "return"

\* C15: with signing enabled, the Signature that references the LoteRps is
\* the last Signature node appended to the tree, for any number of inner
\* elements: when it is created the loop over the Rps elements is over, every
\* Signature appended before it is an inner one that has been applied, and the
\* digest it carries was computed over a LoteRps that held exactly those
\* applied inner Signatures.
C15_ExternaPorUltimo ==
    \A k \in 1..Len(Sigs) :
        Sigs[k].URI = "#" \o xml_lote.id =>
            /\ k = Len(Sigs)
            /\ Get(assinatura, "i", Len(xml_lote.ListaRps) + 1)
                  > Len(xml_lote.ListaRps)
            /\ \A j \in 1..(k - 1) :
                  /\ Sigs[j].URI # "#" \o xml_lote.id
                  /\ ~EhNone(Sigs[j].SignatureValue)
                  /\ ~EhNone(Sigs[j].DigestValue)
            /\ ~EhNone(Sigs[k].DigestValue) =>
                  Sigs[k].DigestValue.Signatures = SubSeq(Sigs, 1, k - 1)

\* two inner signatures, then the outer one, all applied, and bytes returned
C15_Witness ==
    /\ AssinadoDevolvido
    /\ Len(Sigs) = 3
    /\ Sigs[3].URI = "#" \o xml_lote.id
    /\ Len(Sigs[3].DigestValue.Signatures) = 2
    /\ \A k \in 1..3 : ~EhNone(Sigs[k].SignatureValue)

\* the InfRps elements of a tree that carry an id
Assinaveis(xml) == { i \in 1..Len(xml.ListaRps) : xml.ListaRps[i] \notin {None, ""} }

\* C16: in the document a successful signing call returns, when it has at
\* least one signable InfRps, each of them has exactly one Signature and that
\* Signature is a child of its Rps (the parent of the InfRps), no Signature
\* sits inside an InfRps or inside LoteRps, and exactly one Signature
\* references the LoteRps, being the only Signature child of the root.
C16_Posicionamento ==
    (AssinadoDevolvido /\ Assinaveis(assinatura.valor.raiz) # {}) =>
        LET doc == assinatura.valor.raiz
            S == doc.Signatures
            K == 1..Len(S)
        IN  /\ \A i \in Assinaveis(doc) :
                  Cardinality({ k \in K :
                                  /\ S[k].URI = "#" \o doc.ListaRps[i]
                                  /\ S[k].pai = [tag |-> "Rps", i |-> i] }) = 1
            /\ \A k \in K : S[k].pai.tag \in {"Rps", "EnviarLoteRpsEnvio"}
            /\ \A k \in K : S[k].pai.tag = "Rps" =>
                  /\ S[k].pai.i \in Assinaveis(doc)
                  /\ S[k].URI = "#" \o doc.ListaRps[S[k].pai.i]
            /\ Cardinality({ k \in K : S[k].URI = "#" \o doc.id }) = 1
            /\ Cardinality({ k \in K : S[k].pai.tag = "EnviarLoteRpsEnvio" }) = 1
            /\ \A k \in K : S[k].pai.tag = "EnviarLoteRpsEnvio" =>
                  S[k].URI = "#" \o doc.id

\* a returned document with two signed InfRps elements
C16_Witness ==
    /\ AssinadoDevolvido
    /\ Assinaveis(assinatura.valor.raiz) = {1, 2}
    /\ Len(assinatura.valor.raiz.Signatures) = 3
    /\ pc = "etapa4"

\* C17: with signing enabled, a document is returned only if no target
\* element lacks its id: the LoteRps has one, every InfRps has one, and every
\* InfRps carries its applied Signature; an element without id makes the call
\* raise instead.
C17_IdAusenteAborta ==
    AssinadoDevolvido =>
        LET doc == assinatura.valor.raiz
        IN  /\ doc.id \notin {None, ""}
            /\ \A i \in 1..Len(doc.ListaRps) :
                  /\ doc.ListaRps[i] \notin {None, ""}
                  /\ \E k \in 1..Len(doc.Signatures) :
                        /\ doc.Signatures[k].pai = [tag |-> "Rps", i |-> i]
                        /\ ~EhNone(doc.Signatures[k].SignatureValue)

\* the key material was missing when sign_lote_rps_xml asked for it
FalhaDeChave ==
    /\ "amb" \in DOMAIN assinatura
    /\ ~(assinatura.amb.cert_existe /\ assinatura.amb.chave_ok)

\* xmlsec failed on an element: its template is in the tree, not filled in
FalhaDaBiblioteca == \E k \in 1..Len(Sigs) : EhNone(Sigs[k].SignatureValue)

\* C18: with signing enabled, when the key material is missing or xmlsec
\* fails on any element (an inner one or the outer one), the call has raised
\* and handed back no bytes: xml_assinado is never assigned, and once step 3
\* has handled the exception the workflow has returned failed, with
\* 'assinar_xml' not appended and nothing submitted.
C18_FalhaNaoDevolveBytes ==
    (AssinaturaHabilitada /\ (FalhaDeChave \/ FalhaDaBiblioteca)) =>
        /\ assinatura.saida = "raise"
        /\ xml_assinado = NaoAtribuida
        /\ \/ pc = "etapa3"
           \/ /\ Retornado
              /\ ~resultado_final.sucesso
              /\ Etapas = Prefixo(2)
              /\ Erros = << <<"Erro ao assinar XML", "Exception">> >>
              /\ Vezes("send_lote_rps") = 0

\* xmlsec signed the first InfRps and failed on the second
C18_Witness ==
    /\ AssinaturaHabilitada
    /\ Len(Sigs) = 2
    /\ ~EhNone(Sigs[1].SignatureValue)
    /\ EhNone(Sigs[2].SignatureValue)
    /\ Sigs[2].pai = [tag |-> "Rps", i |-> 2]
    /\ Retornado

\* a document as the signer left it: not signed at all, or with a template
\* that was never filled in, or without the LoteRps signature
Incompleto(doc) ==
    \/ doc.Signatures = << >>
    \/ \E k \in 1..Len(doc.Signatures) : EhNone(doc.Signatures[k].SignatureValue)
    \/ \A k \in 1..Len(doc.Signatures) : doc.Signatures[k].URI # "#" \o doc.id

\* C19: sign_lote_rps_xml returns an unsigned serialization only under
\* SKIP_SIGNATURE and one marked as simulated only under TEST_MODE; with both
\* switches off a returned document has the key loaded and every Signature it
\* holds, the LoteRps one among them, filled in with that key, and a call that
\* met an error raised and handed nothing back.
C19_BypassSoPorConfiguracao ==
    /\ assinatura.saida = "return" =>
          LET doc == assinatura.valor.raiz
          IN  /\ Incompleto(doc) => config.SKIP_SIGNATURE \/ config.TEST_MODE
              /\ doc.Comentarios # << >> =>
                    ~config.SKIP_SIGNATURE /\ config.TEST_MODE
              /\ AssinaturaHabilitada =>
                    /\ assinatura.amb.cert_existe
                    /\ assinatura.amb.chave_ok
                    /\ \A k \in 1..Len(doc.Signatures) :
                          doc.Signatures[k].SignatureValue = [chave |-> "key"]
    /\ assinatura.saida = "raise" =>
          /\ AssinaturaHabilitada
          /\ xml_assinado = NaoAtribuida
          /\ pc \in {"etapa3", "retornado"}

\* both switches off and no certificate file: the call raised, step 3 failed
C19_Witness ==
    /\ AssinaturaHabilitada
    /\ assinatura.saida = "raise"
    /\ ~assinatura.amb.cert_existe
    /\ Sigs = << >>
    /\ Retornado
    /\ xml_assinado = NaoAtribuida

\* C20: the xmlsec session and the key handle are held exactly while the
\* signing call runs: both are acquired before the first signature is made,
\* every signature is made with that key, and after the call has returned or
\* raised (key-load failure, inner failure, outer failure, success) xmlsec is
\* shut down and no key handle is left.
C20_RecursosLiberados ==
    /\ assinatura.saida \in {"nenhuma", "return", "raise"} =>
          /\ ~xmlsec.iniciada
          /\ key = NaoAtribuida
    /\ assinatura.saida = "executando" =>
          /\ xmlsec.iniciada
          /\ key = [chave |-> "key"]
    /\ \A k \in 1..Len(Sigs) :
          ~EhNone(Sigs[k].SignatureValue) =>
              Sigs[k].SignatureValue = [chave |-> "key"]

\* xmlsec failed on the outer signature after two inner ones, and the call
\* has raised
C20_Witness ==
    /\ assinatura.saida = "raise"
    /\ Len(Sigs) = 3
    /\ Sigs[3].pai = [tag |-> "EnviarLoteRpsEnvio", i |-> 0]
    /\ EhNone(Sigs[3].SignatureValue)
    /\ pc = "etapa3"

\* the answers the remote service gave to RecepcionarLoteRps
RespostasDoEnvio ==
    SelectSeq(remoto, LAMBDA troca : troca.op = "RecepcionarLoteRps")

\* a well-formed response that contains a protocol identifier
ContemProtocolo(resp) ==
    resp.tipo = "protocolo" /\ resp.texto \notin {None, ""}

\* C21: the result of send_lote_rps says sucesso=true exactly when the remote
\* answered with a well-formed response containing a protocol identifier, and
\* then the result carries that raw response and the protocol found in it.
C21_SucessoSseProtocolo ==
    resultado_envio # NaoAtribuida =>
        /\ resultado_envio.sucesso <=>
              /\ Len(RespostasDoEnvio) = 1
              /\ ContemProtocolo(RespostasDoEnvio[1].resposta)
        /\ resultado_envio.sucesso =>
              /\ resultado_envio.resposta_xml = RespostasDoEnvio[1].resposta
              /\ resultado_envio.protocolo = resultado_envio.resposta_xml.texto

\* the remote service rejected the submission with a code and a message
Rejeicoes ==
    { k \in 1..Len(remoto) : /\ remoto[k].op = "RecepcionarLoteRps"
                             /\ remoto[k].resposta.tipo = "mensagem_retorno" }

\* C22: when the remote rejects the submission with a code and a message,
\* send_lote_rps returns (it does not raise) a failure carrying that code and
\* that message, the submission is not repeated, and the Workflow Result the
\* caller gets is a failure with an error entry that holds both the code and
\* the message as the remote sent them.
C22_RejeicaoVerbatim ==
    \A k \in Rejeicoes :
        LET r == remoto[k].resposta
        IN  /\ resultado_envio # NaoAtribuida
            /\ ~resultado_envio.sucesso
            /\ resultado_envio.codigo_erro = r.codigo
            /\ resultado_envio.erro = r.mensagem
            /\ Vezes("send_lote_rps") = 1
            /\ Retornado
            /\ ~resultado_final.sucesso
            /\ \E e \in 1..Len(Erros) :
                  /\ \E j \in 1..Len(Erros[e]) : Erros[e][j] = r.mensagem
                  /\ \E j \in 1..Len(Erros[e]) : Erros[e][j] = r.codigo

\* the codes send_lote_rps makes up itself for transport and parse failures
CodigosDeTransporteOuParse ==
    {"SOAP_FAULT", "TRANSPORT_ERROR", "UNEXPECTED_ERROR", "PROCESSING_ERROR",
     "INVALID_RESPONSE"}

\* the submission met a transport failure or an unusable response
FalhasDeTransporte ==
    { k \in 1..Len(remoto) :
        /\ remoto[k].op = "RecepcionarLoteRps"
        /\ remoto[k].resposta.tipo \in
              {"fault", "transport_error", "erro", "malformada", "invalida"} }

\* C23: on a SOAP fault, a transport error, any other failure of the call or
\* a malformed response, send_lote_rps returns (the call never raises, so
\* every submission leaves a result) a failure with an error message and one
\* of its own transport-or-parse codes; a rejection by the remote carries the
\* remote's code, which is none of those.
C23_FalhaDeTransporteEstruturada ==
    /\ Vezes("send_lote_rps") > 0 =>
          /\ resultado_envio # NaoAtribuida
          /\ "sucesso" \in DOMAIN resultado_envio
    /\ \A k \in FalhasDeTransporte :
          /\ ~resultado_envio.sucesso
          /\ "erro" \in DOMAIN resultado_envio
          /\ resultado_envio.codigo_erro \in CodigosDeTransporteOuParse
          /\ resultado_envio.protocolo = None
    /\ \A k \in Rejeicoes :
          /\ ~resultado_envio.sucesso
          /\ resultado_envio.codigo_erro \notin CodigosDeTransporteOuParse

\* the remote answered with something that cannot be parsed
C23_Witness ==
    /\ Len(RespostasDoEnvio) = 1
    /\ RespostasDoEnvio[1].resposta.tipo = "malformada"
    /\ resultado_envio.codigo_erro = "PROCESSING_ERROR"
    /\ Retornado

\* C24: none of the four components hands a failure to the orchestrator as
\* a raised exception: the Signature Engine and the Status Poller never end
\* by raising, and every call of the Batch Submission Client and of the
\* Result Retriever leaves a result with a sucesso field.
C24_FalhaComoResultado ==
    /\ assinatura.saida # "raise"
    /\ polling.saida # "raise"
    /\ Vezes("send_lote_rps") > 0 => "sucesso" \in DOMAIN resultado_envio
    /\ Vezes("get_lote_results") > 0 => "sucesso" \in DOMAIN resultado_final_ws

\* get_lote_results has been called
ResultadosPedidos == Vezes("get_lote_results") > 0

\* the calls get_lote_results made, in order: everything recorded after it
DentroDeResultados ==
    LET i == CHOOSE j \in 1..Len(chamadas) : chamadas[j].op = "get_lote_results"
    IN  SubSeq(chamadas, i + 1, Len(chamadas))

\* the exchanges get_lote_results had with the remote service: those after
\* the submission and the poller's queries
RemotoDeResultados == SubSeq(remoto, Len(observados) + 2, Len(remoto))

\* the status the re-query of get_lote_results obtained, SemStatus if none
StatusReconsultado ==
    LET r == RemotoDeResultados[1].resposta
    IN  IF r.tipo = "situacao" THEN r.valor ELSE SemStatus

\* what get_lote_results does when it talks to the remote service: one status
\* re-query for the protocol comes first; unless it answered 4 the function
\* has returned a failure ("not yet processed" when a status other than 4 was
\* obtained) with no wait, no second status query and no NFSe query; the NFSe
\* query is made exactly when the re-queried status is 4
ReconsultaAntesDaBusca ==
    /\ DentroDeResultados # << >>
    /\ DentroDeResultados[1] = Chamada("check_lote_status", protocolo)
    /\ RemotoDeResultados # << >>
    /\ RemotoDeResultados[1].op = "ConsultarSituacaoLoteRps"
    /\ \A j \in 2..Len(DentroDeResultados) :
          DentroDeResultados[j].op \notin {"check_lote_status", "sleep"}
    /\ StatusReconsultado # 4 =>
          /\ Len(DentroDeResultados) = 1
          /\ Len(RemotoDeResultados) = 1
          /\ ~resultado_final_ws.sucesso
          /\ StatusReconsultado # SemStatus =>
                resultado_final_ws.codigo_erro = "LOTE_NOT_PROCESSED"
    /\ StatusReconsultado = 4 =>
          /\ Len(DentroDeResultados) = 2
          /\ DentroDeResultados[2] = Chamada("get_nfse_by_lote", protocolo)
          /\ Len(RemotoDeResultados) = 2
          /\ RemotoDeResultados[2].op = "ConsultarLoteRps"

\* C25 as stated: get_lote_results always first re-queries the status, fails
\* at once with "not yet processed" when it is not 4, and issues the NFSe
\* query only after the re-queried status is 4.
C25_SempreReconsulta == ResultadosPedidos => ReconsultaAntesDaBusca

\* C25, amended: with MOCK_WEBSERVICE off get_lote_results first re-queries
\* the status, fails at once with "not yet processed" when it is not 4, and
\* issues the NFSe query only after the re-queried status is 4; with
\* MOCK_WEBSERVICE on it returns a canned success with one NFSe and makes no
\* status re-query and no NFSe query at all.
C25_ReconsultaSeNaoSimulado ==
    ResultadosPedidos =>
        IF config.MOCK_WEBSERVICE
        THEN /\ DentroDeResultados = << >>
             /\ RemotoDeResultados = << >>
             /\ resultado_final_ws.sucesso
             /\ resultado_final_ws.total_nfse = 1
        ELSE ReconsultaAntesDaBusca

\* the poller saw 4, the re-query inside get_lote_results saw 2: the function
\* returned "not yet processed" and asked for no NFSe
C25_Witness ==
    /\ ResultadosPedidos
    /\ ~config.MOCK_WEBSERVICE
    /\ StatusReconsultado = 2
    /\ resultado_final_ws.codigo_erro = "LOTE_NOT_PROCESSED"
    /\ Vezes("get_nfse_by_lote") = 0
    /\ Retornado

\* C26: the batch XML built from a sequence of N >= 1 invoices reports
\* QuantidadeRps = N and holds exactly N Rps elements, the i-th being the one
\* of the i-th invoice of the input.
C26_QuantidadeIgualAosRps ==
    xml_lote # NaoAtribuida =>
        /\ Len(invoices_data.lista) >= 1
        /\ xml_lote.QuantidadeRps = Len(invoices_data.lista)
        /\ Len(xml_lote.ListaRps) = Len(invoices_data.lista)
        /\ \A i \in 1..Len(invoices_data.lista) :
              xml_lote.ListaRps[i] = invoices_data.lista[i].id_rps

\* a batch of two invoices, the second listed first
C26_Witness ==
    /\ xml_lote # NaoAtribuida
    /\ Len(invoices_data.lista) = 2
    /\ invoices_data.lista[1].id_rps = "rps_2"
    /\ xml_lote.QuantidadeRps = 2
    /\ xml_lote.ListaRps = <<"rps_2", "rps_1">>

\* C27: the batch numbers obtained by the invocations are pairwise different
\* and an invocation that asks later never gets a smaller number than one
\* that asked earlier.
C27_LotesUnicosECrescentes ==
    \A i, j \in 1..Len(lotes) :
        i < j => /\ lotes[i] # lotes[j]
                 /\ lotes[i] <= lotes[j]

\* the calls that reach the network: submission, status query, result query
ChamadasDeRede ==
    { i \in 1..Len(chamadas) :
        chamadas[i].op \in {"send_lote_rps", "check_lote_status",
                            "get_lote_results", "get_nfse_by_lote"} }

\* signing is enabled and the key could not be loaded from the certificate
ChaveFaltando ==
    /\ AssinaturaHabilitada
    /\ "amb" \in DOMAIN assinatura
    /\ (~assinatura.amb.cert_existe \/ ~assinatura.amb.chave_ok)

\* the issuer's tax id or municipal registration is not configured
IdentidadeFaltando ==
    Falsy(config.PRESTADOR_CNPJ) \/ Falsy(config.PRESTADOR_IM)

\* C28: with the key material missing while signing is enabled, or with the
\* issuer's tax id or municipal registration missing, no submission, status
\* query or result query is ever made, and the workflow returns a failure.
C28_ConfiguracaoFaltandoAborta ==
    (ChaveFaltando \/ IdentidadeFaltando) =>
        /\ ChamadasDeRede = {}
        /\ remoto = << >>
        /\ Retornado => ~resultado_final.sucesso

\* the operations every step but the poller is made of
OperacoesUnicas ==
    {"get_invoices_to_process", "gerar_numero_lote", "create_lote_xml",
     "sign_lote_rps_xml", "send_lote_rps", "get_lote_results",
     "get_nfse_by_lote"}

\* status queries recorded before get_lote_results was entered
ConsultasAntesDosResultados ==
    LET p == CHOOSE j \in 1..Len(chamadas) : chamadas[j].op = "get_lote_results"
    IN  Cardinality({ i \in 1..(p - 1) : chamadas[i].op = "check_lote_status" })

\* C29: the collaborator calls of one execution are in the order obtain
\* records, build XML, sign, submit, poll, fetch results (no call is followed
\* by a call of an earlier step); a call of step k is
\* made only with steps 1..k-1 completed; outside the poller no operation is
\* called twice; and once get_lote_results has been entered the poller has
\* returned, every one of its polls lies before that call, and what follows
\* is only the retriever's own calls (its single status re-query and the NFSe
\* query), with no wait.
C29_OrdemEstritaParaFrente ==
    /\ \A i \in 1..(Len(chamadas) - 1) :
          EtapaDaChamada(i) <= EtapaDaChamada(i + 1)
    /\ \A i \in 1..Len(chamadas) : Len(Etapas) >= EtapaDaChamada(i) - 1
    /\ Etapas = SubSeq(ETAPAS, 1, Len(Etapas))
    /\ \A op \in OperacoesUnicas : Vezes(op) <= 1
    /\ ResultadosPedidos =>
          /\ polling.saida = "return"
          /\ ConsultasAntesDosResultados = Len(observados)
          /\ \A k \in 1..Len(DentroDeResultados) :
                DentroDeResultados[k].op \in {"check_lote_status",
                                              "get_nfse_by_lote"}
          /\ Cardinality({ k \in 1..Len(DentroDeResultados) :
                DentroDeResultados[k].op = "check_lote_status" }) <= 1

\* a complete run against the remote service: three polls, then the results
C29_Witness ==
    /\ Retornado
    /\ resultado_final.sucesso
    /\ ~config.MOCK_WEBSERVICE
    /\ Len(Etapas) = 6
    /\ observados = <<1, 2, 4>>
    /\ [i \in 1..Len(chamadas) |-> EtapaDaChamada(i)] \in
          { <<1, 2, 2, 3, 4, 5, 5, 5, 5, 5, 6, 6, 6>>,
            <<1, 2, 2, 3, 4, 5, 5, 5, 5, 6, 6, 6>>,
            <<1, 2, 2, 3, 4, 5, 5, 5, 6, 6, 6>> }

\* the calls and the remote operations that ask about a submitted batch
ConsultasComProtocolo ==
    { i \in 1..Len(chamadas) :
        chamadas[i].op \in {"check_lote_status", "get_lote_results",
                            "get_nfse_by_lote"} }

TrocasComProtocolo ==
    { k \in 1..Len(remoto) :
        remoto[k].op \in {"ConsultarSituacaoLoteRps", "ConsultarLoteRps"} }

\* C30: every status query and every result query, as called and as sent to
\* the remote service, carries the protocol the submission of this execution
\* returned (the one of the remote's answer when the service is not
\* simulated), and once step 4 is among the completed steps the protocolo of
\* the Workflow Result is that same protocol.
C30_ProtocoloCorrelaciona ==
    /\ \A i \in ConsultasComProtocolo :
          /\ resultado_envio # NaoAtribuida
          /\ resultado_envio.sucesso
          /\ chamadas[i].protocolo = resultado_envio.protocolo
          /\ ~Falsy(chamadas[i].protocolo)
    /\ \A k \in TrocasComProtocolo :
          /\ remoto[k].protocolo = resultado_envio.protocolo
          /\ remoto[k].protocolo = RespostasDoEnvio[1].resposta.texto
    /\ Len(Etapas) >= 4 =>
          /\ resultado_final.protocolo = resultado_envio.protocolo
          /\ ~Falsy(resultado_final.protocolo)
    /\ Len(Etapas) < 4 => resultado_final.protocolo = None

\* three status queries by the poller, one more and the NFSe query from the
\* retriever, all for PROT_1, which the Workflow Result reports
C30_Witness ==
    /\ Retornado
    /\ resultado_envio # NaoAtribuida
    /\ resultado_envio.protocolo = "PROT_1"
    /\ resultado_final.protocolo = "PROT_1"
    /\ Cardinality(ConsultasComProtocolo) = 6
    /\ Cardinality(TrocasComProtocolo) = 5

\* the NFSe query has been issued
BuscaFeita == Vezes("get_nfse_by_lote") > 0

\* generated invoices are at hand: in the Workflow Result or in what
\* get_lote_results returned
NfseObtidas ==
    \/ resultado_final.nfse_geradas # << >>
    \/ /\ resultado_final_ws # NaoAtribuida
       /\ Get(resultado_final_ws, "nfse_geradas", << >>) # << >>

\* the answers the remote gave to the status queries for prot, in order
SituacoesDe(prot) ==
    SelectSeq(remoto, LAMBDA troca : /\ troca.op = "ConsultarSituacaoLoteRps"
                                     /\ troca.protocolo = prot)

\* C31: the NFSe query is issued, and generated invoices are at hand, only
\* after a status query for the same protocol answered 4: the poller's last
\* observation is 4, and with the remote service not simulated both the
\* poller's last query and the re-query that precedes the NFSe query were
\* answered with Situacao 4 by the remote for the protocol of the NFSe query.
C31_NfseSoAposSucesso ==
    /\ (BuscaFeita \/ NfseObtidas) =>
          /\ observados # << >>
          /\ observados[Len(observados)] = 4
          /\ polling.saida = "return"
          /\ polling.valor.status = 4
    /\ \A k \in 1..Len(remoto) :
          remoto[k].op = "ConsultarLoteRps" =>
             LET antes == SituacoesDe(remoto[k].protocolo)
             IN  /\ k > 2
                 /\ remoto[k - 1] = antes[Len(antes)]
                 /\ Len(antes) = Len(observados) + 1
                 /\ antes[Len(antes)].resposta =
                       [tipo |-> "situacao", valor |-> 4]
                 /\ antes[Len(antes) - 1].resposta =
                       [tipo |-> "situacao", valor |-> 4]

\* the poller saw 2 and then 4, the re-query saw 4 and the NFSe query
\* brought two invoices
C31_Witness ==
    /\ ~config.MOCK_WEBSERVICE
    /\ observados = <<2, 4>>
    /\ BuscaFeita
    /\ resultado_final_ws # NaoAtribuida
    /\ Len(Get(resultado_final_ws, "nfse_geradas", << >>)) = 2

\* the first invocation is inside the try block of sign_lote_rps_xml
NoTryDaAssinatura ==
    pc \in {"_sign_internal_rps_elements", "_sign_external_lote_element",
            "tostring"}

\* C32: concurrent invocations do not interfere: while an invocation is
\* inside the try block of sign_lote_rps_xml, between its xmlsec.init() and
\* its xmlsec.shutdown(), the library it initialised stays initialised,
\* whatever the other invocation does.
C32_InvocacoesNaoInterferem ==
    /\ NoTryDaAssinatura => xmlsec.iniciada
    /\ outra.pc = "try" => xmlsec.iniciada

\* C33: when the workflow was entered through process_single_invoice, the
\* invoices of step 1 are exactly the one invoice given, and the batch built
\* from them holds that one Rps and reports QuantidadeRps = 1.
C33_SoAFaturaDada ==
    invoices_list # NaoAtribuida =>
        /\ (invoices_data # NaoAtribuida /\ "lista" \in DOMAIN invoices_data) =>
              invoices_data.lista = invoices_list.lista
        /\ xml_lote # NaoAtribuida =>
              /\ xml_lote.QuantidadeRps = 1
              /\ xml_lote.ListaRps = <<invoices_list.lista[1].id_rps>>

\* the four status codes of the remote service
CodigosDefinidos == {1, 2, 3, 4}

\* C34: the poller observes only one of the four defined status codes or a
\* poll failure, and a status answer of the remote whose Situacao is not one
\* of the four is observed as a poll failure.
C34_SoQuatroCodigos ==
    /\ \A k \in 1..Len(observados) :
          observados[k] \in CodigosDefinidos \cup {FALHA}
    /\ ~config.MOCK_WEBSERVICE =>
          \A k \in 1..Len(observados) :
             LET r == SituacoesDe(protocolo)[k].resposta
             IN  (r.tipo = "situacao" /\ r.valor \notin CodigosDefinidos) =>
                    observados[k] = FALHA

\* C35: at every moment of process_pending_invoices, and in the result it
\* returns, etapas_concluidas is a prefix of the six step names in their
\* fixed order: entry i is the name of step i, so no name is duplicated,
\* skipped or out of place, and the list holds exactly the steps that lie
\* before the position the function is at.
C35_EtapasSaoPrefixo ==
    /\ Len(Etapas) <= Len(ETAPAS)
    /\ \A i \in 1..Len(Etapas) : Etapas[i] = ETAPAS[i]
    /\ \A i, j \in 1..Len(Etapas) : Etapas[i] = Etapas[j] => i = j
    /\ ~Retornado => Len(Etapas) = EtapasEm(pc)

\* a run that failed at step 4 returns the three names of the steps before it
C35_Witness ==
    /\ Retornado
    /\ ~resultado_final.sucesso
    /\ Etapas = <<"obter_faturas", "construir_xml", "assinar_xml">>
    /\ Vezes("send_lote_rps") = 1

\* C36: a returned result has exactly one entry in erros when sucesso is
\* false and none when it is true; before the return erros is empty, and no
\* entry is ever the outer handler's "Erro inesperado durante orquestracao".
C36_UmErroPorFalha ==
    /\ Retornado =>
          IF resultado_final.sucesso THEN Erros = << >> ELSE Len(Erros) = 1
    /\ ~Retornado => Erros = << >>
    /\ \A e \in 1..Len(Erros) :
          Erros[e][1] # "Erro inesperado durante orquestracao"

\* the result retrieval failed on its status re-query: one error, that of
\* step 6
C36_Witness ==
    /\ Retornado
    /\ ~resultado_final.sucesso
    /\ Len(Etapas) = 5
    /\ Erros = << <<"Erro ao obter resultados", "Erro ao consultar status">> >>

\* C37: the poller returns normally only with a status result whose code is
\* 3 or 4, the one it observed last; when it ends in any other way (budget
\* used up on non-terminal or unknown codes or on poll failures, or a
\* max_tentativas of 0 with no query made) it raises; so step 5 never
\* reports "Status final inesperado".
C37_RetornoSoTerminal ==
    /\ polling.saida = "return" =>
          /\ polling.valor.sucesso
          /\ polling.valor.status \in {3, 4}
          /\ observados # << >>
          /\ observados[Len(observados)] = polling.valor.status
    /\ (PollerEncerrado /\ (observados = << >> \/
                            observados[Len(observados)] \notin {3, 4})) =>
          polling.saida = "raise"
    /\ (PollerEncerrado /\ max_tentativas <= 0) =>
          /\ polling.saida = "raise"
          /\ ConsultasDoPoller = 0
    /\ \A e \in 1..Len(Erros) : Erros[e][1] # "Status final inesperado"

\* a budget of 0: the poller raised without a single query and step 5 failed
C37_Witness ==
    /\ max_tentativas = 0
    /\ polling.saida = "raise"
    /\ ConsultasDoPoller = 0
    /\ Retornado
    /\ Len(Etapas) = 4

\* the two errors the poller raises when its budget is used up
ErroPersistente ==
    <<"Erro persistente durante polling",
      "Falha persistente na consulta de status">>

ErroTimeout == <<"Timeout no polling", "">>

\* C38: when the poller has used up its attempts, the error it raises is
\* decided by the last attempt alone: the persistent-failure error exactly
\* when the last attempt was a poll failure, the timeout error exactly when
\* the last attempt observed a non-terminal status, whatever the earlier
\* attempts observed; step 5 reports that error.
C38_UltimaTentativaDecide ==
    (polling.saida = "raise" /\ observados # << >>) =>
        LET ultimo == observados[Len(observados)]
        IN  /\ Len(observados) = max_tentativas
            /\ polling.erro \in {ErroPersistente, ErroTimeout}
            /\ polling.erro = ErroPersistente <=> ultimo = FALHA
            /\ polling.erro = ErroTimeout <=> ultimo \notin {FALHA, 3, 4}
            /\ Retornado =>
                  Erros = << <<"Erro durante polling de status",
                               polling.erro[1]>> >>

\* poll failures on all attempts but the last, which saw "processando": the
\* poller ended in the timeout
C38_Witness ==
    /\ observados = <<FALHA, FALHA, 2>>
    /\ polling.saida = "raise"
    /\ polling.erro = ErroTimeout
    /\ Retornado

\* only "processando" until a poll failure on the last attempt: the poller
\* ended in the persistent failure
C38_FalhaSoNoFim ==
    /\ observados = <<2, 2, FALHA>>
    /\ polling.saida = "raise"
    /\ polling.erro = ErroPersistente
    /\ Retornado

\* the poller returned because it observed "processado com sucesso"
PollerViuSucesso ==
    /\ polling.saida = "return"
    /\ observados # << >>
    /\ observados[Len(observados)] = 4

\* C39: with MOCK_WEBSERVICE off, a workflow whose poller observed status 4
\* makes exactly one more status query, inside get_lote_results; when that
\* re-query fails or answers anything but 4 the workflow returns sucesso
\* false with the five steps up to polling_status completed and no NFSe
\* query made: the poller seeing 4 does not by itself get the results fetched.
C39_SucessoNoPollerNaoBasta ==
    (~config.MOCK_WEBSERVICE /\ PollerViuSucesso /\ Retornado) =>
        /\ ResultadosPedidos
        /\ ConsultasDaEtapa6 = 1
        /\ ConsultasDoPoller = Len(observados)
        /\ StatusReconsultado # 4 =>
              /\ ~resultado_final.sucesso
              /\ Etapas = Prefixo(5)
              /\ Etapas[5] = "polling_status"
              /\ Len(Erros) = 1
              /\ Erros[1][1] = "Erro ao obter resultados"
              /\ Vezes("get_nfse_by_lote") = 0
              /\ \A i \in 1..Len(remoto) : remoto[i].op # "ConsultarLoteRps"

\* the poller saw 4 on its second attempt, then the re-query inside
\* get_lote_results got no status at all: the workflow failed after five
\* steps without asking for the NFSe
C39_Witness ==
    /\ ~config.MOCK_WEBSERVICE
    /\ observados = <<2, 4>>
    /\ PollerViuSucesso
    /\ Retornado
    /\ ConsultasDaEtapa6 = 1
    /\ StatusReconsultado = SemStatus
    /\ resultado_final_ws.codigo_erro = "STATUS_CHECK_ERROR"
    /\ ~resultado_final.sucesso
    /\ Len(Etapas) = 5
    /\ Vezes("get_nfse_by_lote") = 0

====
